---- MODULE Spec2Model ----
(***************************************************************************)
(* Model of assess/delta.py: the coefficients A, B, C, D of the analytical *)
(* Stokes solutions with a delta-function forcing, in a cylindrical and a  *)
(* spherical shell, for free-slip (fs), zero-slip (ns) and mixed (nsfs)    *)
(* boundary conditions.                                                    *)
(*                                                                         *)
(* Numbers.  The Python code computes with floats.  The model computes     *)
(* with exact rationals, so every formula is evaluated exactly as written  *)
(* and floating-point rounding is abstracted away.  A rational is a triple *)
(* <<s, n, d>>: the sign s in {-1, 0, 1}, and the magnitudes n and d of    *)
(* numerator and denominator, each a sequence of base-10000 limbs, least   *)
(* significant first (<<>> is 0, <<1>> is 1, <<2345, 1>> is 12345).  A     *)
(* division by zero, and zero raised to a negative power, raise Python's   *)
(* ZeroDivisionError; it propagates through every operation and out of     *)
(* the function that evaluated it.                                         *)
(***************************************************************************)
EXTENDS Integers, Sequences, FiniteSets, TLC

\* ------------------------------------------------------------ magnitudes

Base == 100 * 100

\* Common factors are removed from a fraction by dividing out what the
\* numerator and the denominator share with Smooth = 2^4 * 3^3 * 5^2 * 7.
Smooth == 16 * 27 * 25 * 7

RECURSIVE GCD(_, _)
GCD(x, y) == IF y = 0 THEN x ELSE GCD(y, x % y)

Limb(m, i) == IF i <= Len(m) THEN m[i] ELSE 0

RECURSIVE MTrim(_)
MTrim(m) ==
    IF Len(m) = 0 THEN m
    ELSE IF m[Len(m)] = 0 THEN MTrim(SubSeq(m, 1, Len(m) - 1)) ELSE m

\* The magnitude of a natural number.
RECURSIVE MNat(_)
MNat(k) == IF k = 0 THEN <<>> ELSE <<k % Base>> \o MNat(k \div Base)

\* -1, 0, 1 as a < b, a = b, a > b.
RECURSIVE MCmpFrom(_, _, _)
MCmpFrom(a, b, i) ==
    IF i = 0 THEN 0
    ELSE IF a[i] < b[i] THEN -1
    ELSE IF a[i] > b[i] THEN 1
    ELSE MCmpFrom(a, b, i - 1)

MCmp(a, b) ==
    IF Len(a) < Len(b) THEN -1
    ELSE IF Len(a) > Len(b) THEN 1
    ELSE MCmpFrom(a, b, Len(a))

RECURSIVE MAddFrom(_, _, _, _)
MAddFrom(a, b, i, c) ==
    IF i > Len(a) /\ i > Len(b)
    THEN (IF c = 0 THEN <<>> ELSE <<c>>)
    ELSE LET s == Limb(a, i) + Limb(b, i) + c
         IN  <<s % Base>> \o MAddFrom(a, b, i + 1, s \div Base)

MAdd(a, b) == MAddFrom(a, b, 1, 0)

\* a - b for a >= b.
RECURSIVE MSubFrom(_, _, _, _)
MSubFrom(a, b, i, c) ==
    IF i > Len(a) THEN <<>>
    ELSE LET s == a[i] - Limb(b, i) - c
         IN  IF s < 0 THEN <<s + Base>> \o MSubFrom(a, b, i + 1, 1)
                      ELSE <<s>> \o MSubFrom(a, b, i + 1, 0)

MSub(a, b) == MTrim(MSubFrom(a, b, 1, 0))

\* The sum of a[i] * b[k + 1 - i] for i in lo..hi: column k of the product.
RECURSIVE MColumn(_, _, _, _, _)
MColumn(a, b, k, lo, hi) ==
    IF lo > hi THEN 0
    ELSE a[lo] * b[k + 1 - lo] + MColumn(a, b, k, lo + 1, hi)

Max2(x, y) == IF x > y THEN x ELSE y
Min2(x, y) == IF x < y THEN x ELSE y

RECURSIVE MMulFrom(_, _, _, _)
MMulFrom(a, b, k, c) ==
    IF k > Len(a) + Len(b) - 1
    THEN (IF c = 0 THEN <<>> ELSE <<c % Base>> \o MMulFrom(a, b, k + 1, c \div Base))
    ELSE LET s == MColumn(a, b, k, Max2(1, k + 1 - Len(b)), Min2(Len(a), k)) + c
         IN  <<s % Base>> \o MMulFrom(a, b, k + 1, s \div Base)

MMul(a, b) ==
    IF Len(a) = 0 \/ Len(b) = 0 THEN <<>>
    ELSE IF Len(a) = 1 /\ a[1] = 1 THEN b
    ELSE IF Len(b) = 1 /\ b[1] = 1 THEN a
    ELSE MMulFrom(a, b, 1, 0)

RECURSIVE MPow(_, _)
MPow(m, k) ==
    IF k = 0 THEN <<1>>
    ELSE IF k = 1 THEN m
    ELSE IF k % 2 = 0 THEN LET h == MPow(m, k \div 2) IN MMul(h, h)
    ELSE MMul(m, MPow(m, k - 1))

\* m modulo a small q (q * Base fits a machine integer).
RECURSIVE MModFrom(_, _, _, _)
MModFrom(m, q, i, r) ==
    IF i = 0 THEN r ELSE MModFrom(m, q, i - 1, (r * Base + m[i]) % q)

MMod(m, q) == MModFrom(m, q, Len(m), 0)

\* m divided by a small q that divides it; the limbs come out most significant first.
RECURSIVE MDivFrom(_, _, _, _)
MDivFrom(m, q, i, r) ==
    IF i = 0 THEN <<>>
    ELSE LET cur == r * Base + m[i]
         IN  MDivFrom(m, q, i - 1, cur % q) \o <<cur \div q>>

MDiv(m, q) == MTrim(MDivFrom(m, q, Len(m), 0))

\* A magnitude below Base^2 as a machine integer.
MSmall(m) == Limb(m, 1) + Base * Limb(m, 2)

\* n/d with common factors removed: all of them when both are below Base^2,
\* and those dividing Smooth otherwise.
RECURSIVE MReduce(_, _)
MReduce(n, d) ==
    IF Len(n) = 0 THEN <<n, <<1>>>>
    ELSE IF Len(d) = 1 /\ d[1] = 1 THEN <<n, d>>
    ELSE IF Len(n) <= 2 /\ Len(d) <= 2
    THEN LET g == GCD(MSmall(n), MSmall(d))
         IN  IF g = 1 THEN <<n, d>>
             ELSE <<MNat(MSmall(n) \div g), MNat(MSmall(d) \div g)>>
    ELSE LET g == GCD(GCD(MMod(n, Smooth), Smooth), MMod(d, Smooth))
         IN  IF g = 1 THEN <<n, d>> ELSE MReduce(MDiv(n, g), MDiv(d, g))

\* ------------------------------------------------------------- rationals

ZeroDivisionError == <<>>

Raised(x) == Len(x) = 0

Frac(s, n, d) ==
    LET r == MReduce(n, d)
    IN  IF Len(n) = 0 THEN <<0, <<>>, <<1>>>> ELSE <<s, r[1], r[2]>>

Abs(k) == IF k < 0 THEN -k ELSE k
Sgn(k) == IF k < 0 THEN -1 ELSE IF k = 0 THEN 0 ELSE 1

\* The rational p/q of two machine integers, q # 0.
Q(p, q) == Frac(Sgn(p) * Sgn(q), MNat(Abs(p)), MNat(Abs(q)))

\* An int where the code needs a float.
R(k) == <<Sgn(k), MNat(Abs(k)), <<1>>>>

\* The signed sum s1*n1 + s2*n2 as <<sign, magnitude>>.
SAdd(s1, n1, s2, n2) ==
    IF s1 = 0 THEN <<s2, n2>>
    ELSE IF s2 = 0 THEN <<s1, n1>>
    ELSE IF s1 = s2 THEN <<s1, MAdd(n1, n2)>>
    ELSE LET c == MCmp(n1, n2)
         IN  IF c = 0 THEN <<0, <<>>>>
             ELSE IF c > 0 THEN <<s1, MSub(n1, n2)>>
             ELSE <<s2, MSub(n2, n1)>>

Negate(x) == IF Raised(x) THEN x ELSE <<-x[1], x[2], x[3]>>

Plus(x, y) ==
    IF Raised(x) \/ Raised(y) THEN ZeroDivisionError
    ELSE IF x[3] = y[3]
    THEN LET t == SAdd(x[1], x[2], y[1], y[2]) IN Frac(t[1], t[2], x[3])
    ELSE LET t == SAdd(x[1], MMul(x[2], y[3]), y[1], MMul(y[2], x[3]))
         IN  Frac(t[1], t[2], MMul(x[3], y[3]))

Minus(x, y) == Plus(x, Negate(y))

Times(x, y) ==
    IF Raised(x) \/ Raised(y) THEN ZeroDivisionError
    ELSE Frac(x[1] * y[1], MMul(x[2], y[2]), MMul(x[3], y[3]))

\* x / y: a zero divisor raises.
Over(x, y) ==
    IF Raised(x) \/ Raised(y) THEN ZeroDivisionError
    ELSE IF y[1] = 0 THEN ZeroDivisionError
    ELSE Frac(x[1] * y[1], MMul(x[2], y[3]), MMul(x[3], y[2]))

\* x ** k for an int k: 0 ** 0 is 1 and 0 ** k raises for k < 0.
Power(x, k) ==
    IF Raised(x) THEN ZeroDivisionError
    ELSE IF k = 0 THEN R(1)
    ELSE IF x[1] = 0 THEN (IF k < 0 THEN ZeroDivisionError ELSE x)
    ELSE LET s == IF x[1] < 0 /\ Abs(k) % 2 = 1 THEN -1 ELSE 1
         IN  IF k > 0 THEN Frac(s, MPow(x[2], k), MPow(x[3], k))
             ELSE Frac(s, MPow(x[3], -k), MPow(x[2], -k))

\* x = y as numbers.
Eq(x, y) ==
    /\ ~Raised(x)
    /\ ~Raised(y)
    /\ x[1] = y[1]
    /\ MMul(x[2], y[3]) = MMul(y[2], x[3])

IsZero(x) == ~Raised(x) /\ x[1] = 0

\* ------------------------------------------------------------ expressions
\* A Python expression is built as a tree, <<operator, left, right, 0>> over
\* the values at its leaves, and evaluated bottom-up as Python evaluates it.

Add(x, y) == <<"Add", x, y, 0>>
Sub(x, y) == <<"Sub", x, y, 0>>
Mul(x, y) == <<"Mult", x, y, 0>>
Div(x, y) == <<"Div", x, y, 0>>
Pow(x, k) == <<"Pow", x, k, 0>>
Neg(x) == <<"USub", x, 0, 0>>

RECURSIVE Eval(_)
Eval(e) ==
    IF Len(e) # 4 THEN e
    ELSE CASE e[1] = "Add" -> Plus(Eval(e[2]), Eval(e[3]))
           [] e[1] = "Sub" -> Minus(Eval(e[2]), Eval(e[3]))
           [] e[1] = "Mult" -> Times(Eval(e[2]), Eval(e[3]))
           [] e[1] = "Div" -> Over(Eval(e[2]), Eval(e[3]))
           [] e[1] = "Pow" -> Power(Eval(e[2]), e[3])
           [] e[1] = "USub" -> Negate(Eval(e[2]))

\* ------------------------------------------------- the coefficient formulas
\* One operator per assignment of delta.py, the expression kept as written:
\* x + y is Add(x, y), x - y is Sub(x, y), x * y is Mul(x, y), x / y is
\* Div(x, y), x ** k is Pow(x, k), -x is Neg(x), and R(k) is the int k where
\* it meets a float. Ints (n, l, pm, mp and what is computed from them alone)
\* stay machine integers.

\* cylinder_delta_fs_A with the slip "(n - 2)*nu" for "(n - 1)*nu".
cylinder_delta_fs_A_degree(rp, n, g, nu, alpha_pm, alpha_mp, pm) ==
    Div(Mul(Mul(Mul(Mul(Neg(Q(1, 8)), Sub(Pow(alpha_mp, (2 * n) - 2), R(1))), g), R(pm)), Pow(rp,
        (-n) + 2)), Mul(Mul(Sub(Pow(alpha_mp, (2 * n) - 2), Pow(alpha_pm, (2 * n) - 2)), R(n - 2)),
        nu))

cylinder_delta_fs_A(rp, n, g, nu, alpha_pm, alpha_mp, pm) ==
    Div(Mul(Mul(Mul(Mul(Neg(Q(1, 8)), Sub(Pow(alpha_mp, (2 * n) - 2), R(1))), g), R(pm)), Pow(rp,
        (-n) + 2)), Mul(Mul(Sub(Pow(alpha_mp, (2 * n) - 2), Pow(alpha_pm, (2 * n) - 2)), R(n - 1)),
        nu))

\* cylinder_delta_fs_B with the slip "(alpha_mp**(2*n + 2) - 1)*(n + 1)*nu)" for "(alpha_mp**(2*n + 2) - alpha_pm**(2*n + 2))*(n + 1)*nu)".
cylinder_delta_fs_B_denominator(rp, n, g, nu, alpha_pm, alpha_mp, pm) ==
    Div(Mul(Mul(Mul(Mul(Mul(Neg(Q(1, 8)), Sub(Pow(alpha_mp, (2 * n) + 2), R(1))), Pow(alpha_pm,
        (2 * n) + 2)), g), R(pm)), Pow(rp, n + 2)), Mul(Mul(Sub(Pow(alpha_mp, (2 * n) + 2), R(1)),
        R(n + 1)), nu))

cylinder_delta_fs_B(rp, n, g, nu, alpha_pm, alpha_mp, pm) ==
    Div(Mul(Mul(Mul(Mul(Mul(Neg(Q(1, 8)), Sub(Pow(alpha_mp, (2 * n) + 2), R(1))), Pow(alpha_pm,
        (2 * n) + 2)), g), R(pm)), Pow(rp, n + 2)), Mul(Mul(Sub(Pow(alpha_mp, (2 * n) + 2),
        Pow(alpha_pm, (2 * n) + 2)), R(n + 1)), nu))

\* cylinder_delta_fs_C with the slip "C = -0.125" for "C = 0.125".
cylinder_delta_fs_C_sign(rp, n, g, nu, alpha_pm, alpha_mp, pm) ==
    Div(Mul(Mul(Mul(Neg(Q(1, 8)), Sub(Pow(alpha_mp, (2 * n) + 2), R(1))), g), R(pm)),
        Mul(Mul(Mul(Sub(Pow(alpha_mp, (2 * n) + 2), Pow(alpha_pm, (2 * n) + 2)), R(n + 1)), nu),
        Pow(rp, n)))

cylinder_delta_fs_C(rp, n, g, nu, alpha_pm, alpha_mp, pm) ==
    Div(Mul(Mul(Mul(Q(1, 8), Sub(Pow(alpha_mp, (2 * n) + 2), R(1))), g), R(pm)),
        Mul(Mul(Mul(Sub(Pow(alpha_mp, (2 * n) + 2), Pow(alpha_pm, (2 * n) + 2)), R(n + 1)), nu),
        Pow(rp, n)))

\* cylinder_delta_fs_D with the slip "alpha_pm**(2*n + 2)*g" for "alpha_pm**(2*n - 2)*g".
cylinder_delta_fs_D_exponent(rp, n, g, nu, alpha_pm, alpha_mp, pm) ==
    Div(Mul(Mul(Mul(Mul(Mul(Q(1, 8), Sub(Pow(alpha_mp, (2 * n) - 2), R(1))), Pow(alpha_pm,
        (2 * n) + 2)), g), R(pm)), Pow(rp, n)), Mul(Mul(Sub(Pow(alpha_mp, (2 * n) - 2),
        Pow(alpha_pm, (2 * n) - 2)), R(n - 1)), nu))

cylinder_delta_fs_D(rp, n, g, nu, alpha_pm, alpha_mp, pm) ==
    Div(Mul(Mul(Mul(Mul(Mul(Q(1, 8), Sub(Pow(alpha_mp, (2 * n) - 2), R(1))), Pow(alpha_pm,
        (2 * n) - 2)), g), R(pm)), Pow(rp, n)), Mul(Mul(Sub(Pow(alpha_mp, (2 * n) - 2),
        Pow(alpha_pm, (2 * n) - 2)), R(n - 1)), nu))

\* cylinder_delta_ns_A with the slip "(n - 1)*pm + 1/alpha_m" for "(n + 1)*pm + 1/alpha_m".
cylinder_delta_ns_A_sign(rp, n, g, nu, alpha_p, alpha_m, pm, mp) ==
    Div(Mul(Mul(Mul(Neg(Q(1, 8)), Add(Add(Mul(Sub(Add(Sub(Mul(Sub(Pow(alpha_m, 2), Pow(alpha_p,
        2)), R(n)), R((n - 1) * pm)), Div(R(1), Pow(alpha_m, 2 * n))), Div(R(1), Pow(alpha_p,
        2 * n))), R(n - 1)), Mul(Sub(Div(Pow(alpha_m, 2), Pow(alpha_p, 2 * n)), Div(Pow(alpha_p,
        2), Pow(alpha_m, 2 * n))), R(n))), Mul(Sub(Mul(R(n ^ 2), Pow(Div(alpha_m, alpha_p),
        2 * mp)), Pow(Div(alpha_m, alpha_p), (2 * n) * pm)), R(pm)))), g), Pow(rp, (-n) + 2)),
        Mul(Mul(Sub(Mul(R(n ^ 2), Pow(Sub(Div(alpha_m, alpha_p), Div(alpha_p, alpha_m)), 2)),
        Pow(Sub(Pow(Div(alpha_m, alpha_p), n), Div(R(1), Pow(Div(alpha_m, alpha_p), n))), 2)),
        R(n - 1)), nu))

cylinder_delta_ns_A(rp, n, g, nu, alpha_p, alpha_m, pm, mp) ==
    Div(Mul(Mul(Mul(Neg(Q(1, 8)), Add(Add(Mul(Sub(Add(Sub(Mul(Sub(Pow(alpha_m, 2), Pow(alpha_p,
        2)), R(n)), R((n + 1) * pm)), Div(R(1), Pow(alpha_m, 2 * n))), Div(R(1), Pow(alpha_p,
        2 * n))), R(n - 1)), Mul(Sub(Div(Pow(alpha_m, 2), Pow(alpha_p, 2 * n)), Div(Pow(alpha_p,
        2), Pow(alpha_m, 2 * n))), R(n))), Mul(Sub(Mul(R(n ^ 2), Pow(Div(alpha_m, alpha_p),
        2 * mp)), Pow(Div(alpha_m, alpha_p), (2 * n) * pm)), R(pm)))), g), Pow(rp, (-n) + 2)),
        Mul(Mul(Sub(Mul(R(n ^ 2), Pow(Sub(Div(alpha_m, alpha_p), Div(alpha_p, alpha_m)), 2)),
        Pow(Sub(Pow(Div(alpha_m, alpha_p), n), Div(R(1), Pow(Div(alpha_m, alpha_p), n))), 2)),
        R(n - 1)), nu))

cylinder_delta_ns_B(rp, n, g, nu, alpha_p, alpha_m, pm, mp) ==
    Div(Mul(Mul(Mul(Neg(Q(1, 8)), Add(Sub(Mul(Add(Sub(Sub(Mul(Sub(Pow(alpha_m, 2), Pow(alpha_p,
        2)), R(n)), R((n - 1) * pm)), Pow(alpha_m, 2 * n)), Pow(alpha_p, 2 * n)), R(n + 1)),
        Mul(Sub(Mul(Pow(alpha_m, 2), Pow(alpha_p, 2 * n)), Mul(Pow(alpha_m, 2 * n), Pow(alpha_p,
        2))), R(n))), Mul(Sub(Mul(R(n ^ 2), Pow(Div(alpha_m, alpha_p), 2 * mp)), Pow(Div(alpha_m,
        alpha_p), (2 * mp) * n)), R(pm)))), g), Pow(rp, n + 2)), Mul(Mul(Sub(Mul(R(n ^ 2),
        Pow(Sub(Div(alpha_m, alpha_p), Div(alpha_p, alpha_m)), 2)), Pow(Sub(Pow(Div(alpha_m,
        alpha_p), n), Div(R(1), Pow(Div(alpha_m, alpha_p), n))), 2)), R(n + 1)), nu))

cylinder_delta_ns_C(rp, n, g, nu, alpha_p, alpha_m, pm, mp) ==
    Div(Mul(Mul(Neg(Q(1, 8)), Sub(Sub(Mul(Sub(Mul(R(n ^ 2), Pow(Div(alpha_m, alpha_p), 2 * pm)),
        Pow(Div(alpha_m, alpha_p), (2 * n) * pm)), R(mp)), Mul(Add(Sub(Add(R(mp * (n - 1)),
        Mul(R(n), Sub(Div(R(1), Pow(alpha_m, 2)), Div(R(1), Pow(alpha_p, 2))))), Div(R(1),
        Pow(alpha_m, 2 * n))), Div(R(1), Pow(alpha_p, 2 * n))), R(n + 1))), Mul(R(n), Sub(Div(R(1),
        Mul(Pow(alpha_m, 2 * n), Pow(alpha_p, 2))), Div(R(1), Mul(Pow(alpha_m, 2), Pow(alpha_p,
        2 * n))))))), g), Mul(Mul(Mul(Sub(Mul(R(n ^ 2), Pow(Sub(Div(alpha_m, alpha_p), Div(alpha_p,
        alpha_m)), 2)), Pow(Sub(Pow(Div(alpha_m, alpha_p), n), Div(R(1), Pow(Div(alpha_m, alpha_p),
        n))), 2)), R(n + 1)), nu), Pow(rp, n)))

\* cylinder_delta_ns_D with the slip "D = 0.125" for "D = -0.125".
cylinder_delta_ns_D_sign(rp, n, g, nu, alpha_p, alpha_m, pm, mp) ==
    Div(Mul(Mul(Mul(Q(1, 8), Add(Sub(Mul(Sub(Mul(R(n ^ 2), Pow(Div(alpha_m, alpha_p), 2 * pm)),
        Pow(Div(alpha_m, alpha_p), (2 * mp) * n)), R(mp)), Mul(Sub(Add(Add(R(mp * (n + 1)),
        Mul(R(n), Sub(Div(R(1), Pow(alpha_m, 2)), Div(R(1), Pow(alpha_p, 2))))), Pow(alpha_m,
        2 * n)), Pow(alpha_p, 2 * n)), R(n - 1))), Mul(R(n), Sub(Div(Pow(alpha_m, 2 * n),
        Pow(alpha_p, 2)), Div(Pow(alpha_p, 2 * n), Pow(alpha_m, 2)))))), g), Pow(rp, n)),
        Mul(Mul(Sub(Mul(R(n ^ 2), Pow(Sub(Div(alpha_m, alpha_p), Div(alpha_p, alpha_m)), 2)),
        Pow(Sub(Pow(Div(alpha_m, alpha_p), n), Div(R(1), Pow(Div(alpha_m, alpha_p), n))), 2)),
        R(n - 1)), nu))

cylinder_delta_ns_D(rp, n, g, nu, alpha_p, alpha_m, pm, mp) ==
    Div(Mul(Mul(Mul(Neg(Q(1, 8)), Add(Sub(Mul(Sub(Mul(R(n ^ 2), Pow(Div(alpha_m, alpha_p),
        2 * pm)), Pow(Div(alpha_m, alpha_p), (2 * mp) * n)), R(mp)),
        Mul(Sub(Add(Add(R(mp * (n + 1)), Mul(R(n), Sub(Div(R(1), Pow(alpha_m, 2)), Div(R(1),
        Pow(alpha_p, 2))))), Pow(alpha_m, 2 * n)), Pow(alpha_p, 2 * n)), R(n - 1))), Mul(R(n),
        Sub(Div(Pow(alpha_m, 2 * n), Pow(alpha_p, 2)), Div(Pow(alpha_p, 2 * n), Pow(alpha_m,
        2)))))), g), Pow(rp, n)), Mul(Mul(Sub(Mul(R(n ^ 2), Pow(Sub(Div(alpha_m, alpha_p),
        Div(alpha_p, alpha_m)), 2)), Pow(Sub(Pow(Div(alpha_m, alpha_p), n), Div(R(1),
        Pow(Div(alpha_m, alpha_p), n))), 2)), R(n - 1)), nu))

\* sphere_delta_fs_A with the slip "(l - 1)*nu" for "(2*l - 1)*nu".
sphere_delta_fs_A_degree(rp, l, g, nu, alpha_pm, alpha_mp, pm) ==
    Div(Mul(Mul(Mul(Mul(Neg(Q(1, 2)), Sub(Pow(alpha_mp, (2 * l) - 1), R(1))), g), R(pm)), Pow(rp,
        (-l) + 2)), Mul(Mul(Mul(Sub(Pow(alpha_mp, (2 * l) - 1), Pow(alpha_pm, (2 * l) - 1)),
        R((2 * l) + 1)), R(l - 1)), nu))

sphere_delta_fs_A(rp, l, g, nu, alpha_pm, alpha_mp, pm) ==
    Div(Mul(Mul(Mul(Mul(Neg(Q(1, 2)), Sub(Pow(alpha_mp, (2 * l) - 1), R(1))), g), R(pm)), Pow(rp,
        (-l) + 2)), Mul(Mul(Mul(Sub(Pow(alpha_mp, (2 * l) - 1), Pow(alpha_pm, (2 * l) - 1)),
        R((2 * l) + 1)), R((2 * l) - 1)), nu))

\* sphere_delta_fs_B with the slip "rp**(l + 2)" for "rp**(l + 3)".
sphere_delta_fs_B_exponent(rp, l, g, nu, alpha_pm, alpha_mp, pm) ==
    Div(Mul(Mul(Mul(Mul(Neg(Q(1, 2)), Sub(Pow(alpha_mp, ((-2) * l) - 3), R(1))), g), R(pm)),
        Pow(rp, l + 2)), Mul(Mul(Mul(Sub(Pow(alpha_mp, ((-2) * l) - 3), Pow(alpha_pm,
        ((-2) * l) - 3)), R((2 * l) + 3)), R((2 * l) + 1)), nu))

sphere_delta_fs_B(rp, l, g, nu, alpha_pm, alpha_mp, pm) ==
    Div(Mul(Mul(Mul(Mul(Neg(Q(1, 2)), Sub(Pow(alpha_mp, ((-2) * l) - 3), R(1))), g), R(pm)),
        Pow(rp, l + 3)), Mul(Mul(Mul(Sub(Pow(alpha_mp, ((-2) * l) - 3), Pow(alpha_pm,
        ((-2) * l) - 3)), R((2 * l) + 3)), R((2 * l) + 1)), nu))

sphere_delta_fs_C(rp, l, g, nu, alpha_pm, alpha_mp, pm) ==
    Div(Mul(Mul(Mul(Q(1, 2), Sub(Pow(alpha_mp, (2 * l) + 3), R(1))), g), R(pm)),
        Mul(Mul(Mul(Mul(Sub(Pow(alpha_mp, (2 * l) + 3), Pow(alpha_pm, (2 * l) + 3)),
        R((2 * l) + 3)), R((2 * l) + 1)), nu), Pow(rp, l)))

sphere_delta_fs_D(rp, l, g, nu, alpha_pm, alpha_mp, pm) ==
    Div(Mul(Mul(Mul(Mul(Q(1, 2), Sub(Pow(alpha_mp, ((-2) * l) + 1), R(1))), g), R(pm)), Pow(rp,
        l + 1)), Mul(Mul(Mul(Sub(Pow(alpha_mp, ((-2) * l) + 1), Pow(alpha_pm, ((-2) * l) + 1)),
        R((2 * l) + 1)), R((2 * l) - 1)), nu))

sphere_delta_ns_A(rp, l, g, nu, alpha_p, alpha_m, pm, mp) ==
    Div(Mul(Mul(Mul(Neg(Q(1, 2)), Sub(Add(Add(Sub(Sub(Sub(Pow(alpha_m, 2), Pow(alpha_p, 2)),
        Div(Mul(R(((2 * l) + 1) * mp), Pow(Div(alpha_m, alpha_p), 2 * mp)), R((2 * l) - 1))),
        Div(R(((2 * l) + 3) * pm), R((2 * l) + 1))), Div(Mul(R(2), Sub(Pow(alpha_m,
        ((-2) * l) - 1), Pow(alpha_p, ((-2) * l) - 1))), R((2 * l) + 1))), Div(Mul(R(2),
        Sub(Mul(Pow(alpha_m, 2), Pow(alpha_p, ((-2) * l) - 1)), Mul(Pow(alpha_m, ((-2) * l) - 1),
        Pow(alpha_p, 2)))), R((2 * l) - 1))), Div(Mul(R(4 * pm), Pow(Div(alpha_m, alpha_p),
        ((2 * l) + 1) * pm)), R(((2 * l) + 1) * ((2 * l) - 1))))), g), Pow(rp, (-l) + 2)),
        Mul(Sub(Sub(Sub(Mul(R(((2 * l) + 1) ^ 2), Add(Div(Pow(alpha_m, 2), Pow(alpha_p, 2)),
        Div(Pow(alpha_p, 2), Pow(alpha_m, 2)))), R((2 * ((2 * l) + 3)) * ((2 * l) - 1))), Mul(R(4),
        Pow(Div(alpha_m, alpha_p), (2 * l) + 1))), Mul(R(4), Pow(Div(alpha_m, alpha_p),
        ((-2) * l) - 1))), nu))

sphere_delta_ns_B(rp, l, g, nu, alpha_p, alpha_m, pm, mp) ==
    Div(Mul(Mul(Mul(Neg(Q(1, 2)), Sub(Sub(Sub(Sub(Sub(Sub(Pow(alpha_m, 2), Pow(alpha_p, 2)),
        Div(Mul(R(((2 * l) + 1) * mp), Pow(Div(alpha_m, alpha_p), 2 * mp)), R((2 * l) + 3))),
        Div(R(((2 * l) - 1) * pm), R((2 * l) + 1))), Div(Mul(R(2), Sub(Mul(Pow(alpha_m, 2),
        Pow(alpha_p, (2 * l) + 1)), Mul(Pow(alpha_m, (2 * l) + 1), Pow(alpha_p, 2)))),
        R((2 * l) + 3))), Div(Mul(R(2), Sub(Pow(alpha_m, (2 * l) + 1), Pow(alpha_p, (2 * l) + 1))),
        R((2 * l) + 1))), Div(Mul(R(4 * pm), Pow(Div(alpha_m, alpha_p), ((2 * l) + 1) * mp)),
        R(((2 * l) + 3) * ((2 * l) + 1))))), g), Pow(rp, l + 3)),
        Mul(Sub(Sub(Sub(Mul(R(((2 * l) + 1) ^ 2), Add(Div(Pow(alpha_m, 2), Pow(alpha_p, 2)),
        Div(Pow(alpha_p, 2), Pow(alpha_m, 2)))), R((2 * ((2 * l) + 3)) * ((2 * l) - 1))), Mul(R(4),
        Pow(Div(alpha_m, alpha_p), (2 * l) + 1))), Mul(R(4), Pow(Div(alpha_m, alpha_p),
        ((-2) * l) - 1))), nu))

sphere_delta_ns_C(rp, l, g, nu, alpha_p, alpha_m, pm, mp) ==
    Div(Mul(Mul(Q(1, 2), Sub(Add(Add(Add(Sub(Add(Div(Mul(R(((2 * l) + 1) * pm), Pow(Div(alpha_m,
        alpha_p), 2 * pm)), R((2 * l) + 3)), Div(R(((2 * l) - 1) * mp), R((2 * l) + 1))),
        Div(Mul(R(2), Sub(Pow(alpha_m, ((-2) * l) - 1), Pow(alpha_p, ((-2) * l) - 1))),
        R((2 * l) + 1))), Div(Mul(R(4 * mp), Pow(Div(alpha_m, alpha_p), ((2 * l) + 1) * pm)),
        R(((2 * l) + 3) * ((2 * l) + 1)))), Div(Mul(R(2), Sub(Div(Pow(alpha_m, ((-2) * l) - 1),
        Pow(alpha_p, 2)), Div(Pow(alpha_p, ((-2) * l) - 1), Pow(alpha_m, 2)))), R((2 * l) + 3))),
        Div(R(1), Pow(alpha_m, 2))), Div(R(1), Pow(alpha_p, 2)))), g),
        Mul(Mul(Sub(Sub(Sub(Mul(R(((2 * l) + 1) ^ 2), Add(Div(Pow(alpha_m, 2), Pow(alpha_p, 2)),
        Div(Pow(alpha_p, 2), Pow(alpha_m, 2)))), R((2 * ((2 * l) + 3)) * ((2 * l) - 1))), Mul(R(4),
        Pow(Div(alpha_m, alpha_p), (2 * l) + 1))), Mul(R(4), Pow(Div(alpha_m, alpha_p),
        ((-2) * l) - 1))), nu), Pow(rp, l)))

sphere_delta_ns_D(rp, l, g, nu, alpha_p, alpha_m, pm, mp) ==
    Div(Mul(Mul(Mul(Q(1, 2), Sub(Add(Sub(Add(Add(Add(Div(Mul(R(((2 * l) + 1) * pm),
        Pow(Div(alpha_m, alpha_p), 2 * pm)), R((2 * l) - 1)), Div(R(((2 * l) + 3) * mp),
        R((2 * l) + 1))), Div(Mul(R(2), Sub(Pow(alpha_m, (2 * l) + 1), Pow(alpha_p, (2 * l) + 1))),
        R((2 * l) + 1))), Div(Mul(R(4 * mp), Pow(Div(alpha_m, alpha_p), ((2 * l) + 1) * mp)),
        R(((2 * l) + 1) * ((2 * l) - 1)))), Div(Mul(R(2), Sub(Div(Pow(alpha_m, (2 * l) + 1),
        Pow(alpha_p, 2)), Div(Pow(alpha_p, (2 * l) + 1), Pow(alpha_m, 2)))), R((2 * l) - 1))),
        Div(R(1), Pow(alpha_m, 2))), Div(R(1), Pow(alpha_p, 2)))), g), Pow(rp, l + 1)),
        Mul(Sub(Sub(Sub(Mul(R(((2 * l) + 1) ^ 2), Add(Div(Pow(alpha_m, 2), Pow(alpha_p, 2)),
        Div(Pow(alpha_p, 2), Pow(alpha_m, 2)))), R((2 * ((2 * l) + 3)) * ((2 * l) - 1))), Mul(R(4),
        Pow(Div(alpha_m, alpha_p), (2 * l) + 1))), Mul(R(4), Pow(Div(alpha_m, alpha_p),
        ((-2) * l) - 1))), nu))

cylinder_delta_nsfs_Ap(Rp, Rm, Rd, n, g, nu) ==
    Div(Mul(Mul(Mul(Mul(Div(Div(Div(Div(R(-1), nu), Pow(Rd, (-n) + 2)), Pow(Rd, n)),
        Add(Sub(Sub(Mul(Mul(Pow(Rp, (-n) + 2), Pow(Rm, n)), R(n)), Mul(Mul(Pow(Rm, (-n) + 2),
        Pow(Rp, n)), R(n))), Mul(Pow(Rp, (-n) + 2), Pow(Rm, n))), Mul(Pow(Rm, (-n) + 2), Pow(Rp,
        n)))), Sub(Mul(Pow(Rd, (-n) + 2), Pow(Rm, n)), Mul(Pow(Rm, (-n) + 2), Pow(Rd, n)))), g),
        Pow(Rd, 2)), Pow(Rp, (-n) + 2)), R(8))

cylinder_delta_nsfs_Bp(Rp, Rm, Rd, n, g, nu) ==
    Div(Div(Div(Div(Div(Mul(Mul(Mul(Neg(Pow(Rp, n + 2)), Sub(Mul(Pow(Rm, -n), Pow(Rd, n + 2)),
        Mul(Pow(Rm, n + 2), Pow(Rd, -n)))), g), Pow(Rd, 2)), nu), Pow(Rd, n + 2)), Pow(Rd, -n)),
        Sub(Add(Sub(Mul(Mul(Pow(Rm, -n), Pow(Rp, n + 2)), R(n)), Mul(Mul(Pow(Rm, n + 2), Pow(Rp,
        -n)), R(n))), Mul(Pow(Rm, -n), Pow(Rp, n + 2))), Mul(Pow(Rm, n + 2), Pow(Rp, -n)))), R(8))

\* cylinder_delta_nsfs_Cp with the slip "Cp = Rp ** (n) *" for "Cp = Rp ** (-n) *".
cylinder_delta_nsfs_Cp_exponent(Rp, Rm, Rd, n, g, nu) ==
    Div(Div(Div(Div(Div(Mul(Mul(Mul(Pow(Rp, n), Sub(Mul(Pow(Rm, -n), Pow(Rd, n + 2)), Mul(Pow(Rm,
        n + 2), Pow(Rd, -n)))), g), Pow(Rd, 2)), nu), Pow(Rd, n + 2)), Pow(Rd, -n)),
        Sub(Add(Sub(Mul(Mul(Pow(Rm, -n), Pow(Rp, n + 2)), R(n)), Mul(Mul(Pow(Rm, n + 2), Pow(Rp,
        -n)), R(n))), Mul(Pow(Rm, -n), Pow(Rp, n + 2))), Mul(Pow(Rm, n + 2), Pow(Rp, -n)))), R(8))

cylinder_delta_nsfs_Cp(Rp, Rm, Rd, n, g, nu) ==
    Div(Div(Div(Div(Div(Mul(Mul(Mul(Pow(Rp, -n), Sub(Mul(Pow(Rm, -n), Pow(Rd, n + 2)), Mul(Pow(Rm,
        n + 2), Pow(Rd, -n)))), g), Pow(Rd, 2)), nu), Pow(Rd, n + 2)), Pow(Rd, -n)),
        Sub(Add(Sub(Mul(Mul(Pow(Rm, -n), Pow(Rp, n + 2)), R(n)), Mul(Mul(Pow(Rm, n + 2), Pow(Rp,
        -n)), R(n))), Mul(Pow(Rm, -n), Pow(Rp, n + 2))), Mul(Pow(Rm, n + 2), Pow(Rp, -n)))), R(8))

cylinder_delta_nsfs_Dp(Rp, Rm, Rd, n, g, nu) ==
    Div(Mul(Mul(Mul(Mul(Div(Div(Div(Div(R(1), nu), Pow(Rd, (-n) + 2)), Pow(Rd, n)),
        Add(Sub(Sub(Mul(Mul(Pow(Rp, (-n) + 2), Pow(Rm, n)), R(n)), Mul(Mul(Pow(Rm, (-n) + 2),
        Pow(Rp, n)), R(n))), Mul(Pow(Rp, (-n) + 2), Pow(Rm, n))), Mul(Pow(Rm, (-n) + 2), Pow(Rp,
        n)))), Sub(Mul(Pow(Rd, (-n) + 2), Pow(Rm, n)), Mul(Pow(Rm, (-n) + 2), Pow(Rd, n)))),
        Pow(Rp, n)), g), Pow(Rd, 2)), R(8))

cylinder_delta_nsfs_Am(Rp, Rm, Rd, n, g, nu) ==
    Div(Mul(Mul(Mul(Div(Div(Div(Div(Sub(Mul(Pow(Rp, (-n) + 2), Pow(Rd, n)), Mul(Pow(Rd, (-n) + 2),
        Pow(Rp, n))), nu), Pow(Rd, (-n) + 2)), Pow(Rd, n)), Add(Sub(Sub(Mul(Mul(Pow(Rp, (-n) + 2),
        Pow(Rm, n)), R(n)), Mul(Mul(Pow(Rm, (-n) + 2), Pow(Rp, n)), R(n))), Mul(Pow(Rp, (-n) + 2),
        Pow(Rm, n))), Mul(Pow(Rm, (-n) + 2), Pow(Rp, n)))), g), Pow(Rd, 2)), Pow(Rm, (-n) + 2)),
        R(8))

cylinder_delta_nsfs_Bm(Rp, Rm, Rd, n, g, nu) ==
    Div(Div(Div(Div(Div(Mul(Mul(Mul(Neg(Pow(Rm, n + 2)), Sub(Mul(Pow(Rp, -n), Pow(Rd, n + 2)),
        Mul(Pow(Rp, n + 2), Pow(Rd, -n)))), g), Pow(Rd, 2)), nu), Pow(Rd, n + 2)), Pow(Rd, -n)),
        Sub(Add(Sub(Mul(Mul(Pow(Rm, -n), Pow(Rp, n + 2)), R(n)), Mul(Mul(Pow(Rm, n + 2), Pow(Rp,
        -n)), R(n))), Mul(Pow(Rm, -n), Pow(Rp, n + 2))), Mul(Pow(Rm, n + 2), Pow(Rp, -n)))), R(8))

cylinder_delta_nsfs_Cm(Rp, Rm, Rd, n, g, nu) ==
    Div(Div(Div(Div(Div(Mul(Mul(Mul(Sub(Mul(Pow(Rp, -n), Pow(Rd, n + 2)), Mul(Pow(Rp, n + 2),
        Pow(Rd, -n))), Pow(Rm, -n)), g), Pow(Rd, 2)), nu), Pow(Rd, n + 2)), Pow(Rd, -n)),
        Sub(Add(Sub(Mul(Mul(Pow(Rm, -n), Pow(Rp, n + 2)), R(n)), Mul(Mul(Pow(Rm, n + 2), Pow(Rp,
        -n)), R(n))), Mul(Pow(Rm, -n), Pow(Rp, n + 2))), Mul(Pow(Rm, n + 2), Pow(Rp, -n)))), R(8))

cylinder_delta_nsfs_Dm(Rp, Rm, Rd, n, g, nu) ==
    Div(Mul(Mul(Div(Div(Div(Div(Mul(Neg(Pow(Rm, n)), Sub(Mul(Pow(Rp, (-n) + 2), Pow(Rd, n)),
        Mul(Pow(Rd, (-n) + 2), Pow(Rp, n)))), nu), Pow(Rd, (-n) + 2)), Pow(Rd, n)),
        Add(Sub(Sub(Mul(Mul(Pow(Rp, (-n) + 2), Pow(Rm, n)), R(n)), Mul(Mul(Pow(Rm, (-n) + 2),
        Pow(Rp, n)), R(n))), Mul(Pow(Rp, (-n) + 2), Pow(Rm, n))), Mul(Pow(Rm, (-n) + 2), Pow(Rp,
        n)))), g), Pow(Rd, 2)), R(8))

\* sphere_delta_nsfs_Ap with the slip "Ap = Rd ** 2" for "Ap = -Rd ** 2".
sphere_delta_nsfs_Ap_sign(Rp, Rm, Rd, l, g, nu) ==
    Div(Div(Div(Div(Div(Div(Div(Mul(Mul(Pow(Rd, 2), g),
        Sub(Add(Sub(Sub(Add(Add(Sub(Sub(Add(Mul(Mul(Mul(Mul(Mul(Mul(Mul(Mul(R(2), Pow(Rm, l)),
        Pow(Rm, (-l) - 1)), Pow(Rp, l + 2)), Pow(Rp, (-l) + 1)), Pow(Rd, (-l) - 1)), Pow(Rd,
        l + 2)), Pow(Rd, (-l) + 1)), R(l)), Mul(Mul(Mul(Mul(Mul(Mul(Mul(Mul(R(2), Pow(Rm,
        (-l) - 1)), Pow(Rm, (-l) + 1)), Pow(Rp, (-l) - 1)), Pow(Rp, l + 2)), Pow(Rd, l)), Pow(Rd,
        l + 2)), Pow(Rd, (-l) + 1)), R(l))), Mul(Mul(Mul(Mul(Mul(Mul(Mul(Mul(R(2), Pow(Rm,
        (-l) - 1)), Pow(Rm, (-l) + 1)), Pow(Rp, l + 2)), Pow(Rp, (-l) + 1)), Pow(Rd, l)), Pow(Rd,
        (-l) - 1)), Pow(Rd, l + 2)), R(l))), Mul(Mul(Mul(Mul(Mul(Mul(Mul(Mul(R(2), Pow(Rm, l + 2)),
        Pow(Rm, (-l) + 1)), Pow(Rp, (-l) - 1)), Pow(Rp, l + 2)), Pow(Rd, l)), Pow(Rd, (-l) - 1)),
        Pow(Rd, (-l) + 1)), R(l))), Mul(Mul(Mul(Mul(Mul(Mul(Pow(Rm, l), Pow(Rm, (-l) - 1)), Pow(Rp,
        l + 2)), Pow(Rp, (-l) + 1)), Pow(Rd, (-l) - 1)), Pow(Rd, l + 2)), Pow(Rd, (-l) + 1))),
        Mul(Mul(Mul(Mul(Mul(Mul(Mul(R(2), Pow(Rm, l)), Pow(Rm, l + 2)), Pow(Rp, (-l) - 1)), Pow(Rp,
        (-l) + 1)), Pow(Rd, (-l) - 1)), Pow(Rd, l + 2)), Pow(Rd, (-l) + 1))),
        Mul(Mul(Mul(Mul(Mul(Mul(Pow(Rm, (-l) - 1), Pow(Rm, (-l) + 1)), Pow(Rp, (-l) - 1)), Pow(Rp,
        l + 2)), Pow(Rd, l)), Pow(Rd, l + 2)), Pow(Rd, (-l) + 1))), Mul(Mul(Mul(Mul(Mul(Mul(Pow(Rm,
        (-l) - 1), Pow(Rm, (-l) + 1)), Pow(Rp, l + 2)), Pow(Rp, (-l) + 1)), Pow(Rd, l)), Pow(Rd,
        (-l) - 1)), Pow(Rd, l + 2))), Mul(Mul(Mul(Mul(Mul(Mul(Pow(Rm, l + 2), Pow(Rm, (-l) + 1)),
        Pow(Rp, (-l) - 1)), Pow(Rp, l + 2)), Pow(Rd, l)), Pow(Rd, (-l) - 1)), Pow(Rd, (-l) + 1))),
        Mul(Mul(Mul(Mul(Mul(Mul(Mul(R(2), Pow(Rm, l + 2)), Pow(Rm, (-l) + 1)), Pow(Rp, (-l) - 1)),
        Pow(Rp, (-l) + 1)), Pow(Rd, l)), Pow(Rd, (-l) - 1)), Pow(Rd, l + 2)))),
        Add(Add(Sub(Sub(Add(Sub(Sub(Sub(Add(Add(Sub(Mul(Mul(Mul(Mul(Mul(R(8), Pow(Rm, l)), Pow(Rm,
        (-l) - 1)), Pow(Rp, l + 2)), Pow(Rp, (-l) + 1)), R(l ^ 3)), Mul(Mul(Mul(Mul(Mul(R(8),
        Pow(Rm, l + 2)), Pow(Rm, (-l) + 1)), Pow(Rp, l)), Pow(Rp, (-l) - 1)), R(l ^ 3))),
        Mul(Mul(Mul(Mul(Mul(R(4), Pow(Rm, l)), Pow(Rm, (-l) - 1)), Pow(Rp, l + 2)), Pow(Rp,
        (-l) + 1)), R(l ^ 2))), Mul(Mul(Mul(Mul(Mul(R(8), Pow(Rm, l)), Pow(Rm, l + 2)), Pow(Rp,
        (-l) - 1)), Pow(Rp, (-l) + 1)), R(l ^ 2))), Mul(Mul(Mul(Mul(Mul(R(8), Pow(Rm, (-l) - 1)),
        Pow(Rm, (-l) + 1)), Pow(Rp, l)), Pow(Rp, l + 2)), R(l ^ 2))), Mul(Mul(Mul(Mul(Mul(R(4),
        Pow(Rm, l + 2)), Pow(Rm, (-l) + 1)), Pow(Rp, l)), Pow(Rp, (-l) - 1)), R(l ^ 2))),
        Mul(Mul(Mul(Mul(Mul(R(2), Pow(Rm, l)), Pow(Rm, (-l) - 1)), Pow(Rp, l + 2)), Pow(Rp,
        (-l) + 1)), R(l))), Mul(Mul(Mul(Mul(Mul(R(2), Pow(Rm, l + 2)), Pow(Rm, (-l) + 1)), Pow(Rp,
        l)), Pow(Rp, (-l) - 1)), R(l))), Mul(Mul(Mul(Pow(Rm, l), Pow(Rm, (-l) - 1)), Pow(Rp,
        l + 2)), Pow(Rp, (-l) + 1))), Mul(Mul(Mul(Mul(R(2), Pow(Rm, l)), Pow(Rm, l + 2)), Pow(Rp,
        (-l) - 1)), Pow(Rp, (-l) + 1))), Mul(Mul(Mul(Mul(R(2), Pow(Rm, (-l) - 1)), Pow(Rm,
        (-l) + 1)), Pow(Rp, l)), Pow(Rp, l + 2))), Mul(Mul(Mul(Pow(Rm, l + 2), Pow(Rm, (-l) + 1)),
        Pow(Rp, l)), Pow(Rp, (-l) - 1)))), Pow(Rd, (-l) + 1)), Pow(Rd, l + 2)), Pow(Rd, (-l) - 1)),
        Pow(Rd, l)), nu), R(2))

sphere_delta_nsfs_Ap(Rp, Rm, Rd, l, g, nu) ==
    Div(Div(Div(Div(Div(Div(Div(Mul(Mul(Neg(Pow(Rd, 2)), g),
        Sub(Add(Sub(Sub(Add(Add(Sub(Sub(Add(Mul(Mul(Mul(Mul(Mul(Mul(Mul(Mul(R(2), Pow(Rm, l)),
        Pow(Rm, (-l) - 1)), Pow(Rp, l + 2)), Pow(Rp, (-l) + 1)), Pow(Rd, (-l) - 1)), Pow(Rd,
        l + 2)), Pow(Rd, (-l) + 1)), R(l)), Mul(Mul(Mul(Mul(Mul(Mul(Mul(Mul(R(2), Pow(Rm,
        (-l) - 1)), Pow(Rm, (-l) + 1)), Pow(Rp, (-l) - 1)), Pow(Rp, l + 2)), Pow(Rd, l)), Pow(Rd,
        l + 2)), Pow(Rd, (-l) + 1)), R(l))), Mul(Mul(Mul(Mul(Mul(Mul(Mul(Mul(R(2), Pow(Rm,
        (-l) - 1)), Pow(Rm, (-l) + 1)), Pow(Rp, l + 2)), Pow(Rp, (-l) + 1)), Pow(Rd, l)), Pow(Rd,
        (-l) - 1)), Pow(Rd, l + 2)), R(l))), Mul(Mul(Mul(Mul(Mul(Mul(Mul(Mul(R(2), Pow(Rm, l + 2)),
        Pow(Rm, (-l) + 1)), Pow(Rp, (-l) - 1)), Pow(Rp, l + 2)), Pow(Rd, l)), Pow(Rd, (-l) - 1)),
        Pow(Rd, (-l) + 1)), R(l))), Mul(Mul(Mul(Mul(Mul(Mul(Pow(Rm, l), Pow(Rm, (-l) - 1)), Pow(Rp,
        l + 2)), Pow(Rp, (-l) + 1)), Pow(Rd, (-l) - 1)), Pow(Rd, l + 2)), Pow(Rd, (-l) + 1))),
        Mul(Mul(Mul(Mul(Mul(Mul(Mul(R(2), Pow(Rm, l)), Pow(Rm, l + 2)), Pow(Rp, (-l) - 1)), Pow(Rp,
        (-l) + 1)), Pow(Rd, (-l) - 1)), Pow(Rd, l + 2)), Pow(Rd, (-l) + 1))),
        Mul(Mul(Mul(Mul(Mul(Mul(Pow(Rm, (-l) - 1), Pow(Rm, (-l) + 1)), Pow(Rp, (-l) - 1)), Pow(Rp,
        l + 2)), Pow(Rd, l)), Pow(Rd, l + 2)), Pow(Rd, (-l) + 1))), Mul(Mul(Mul(Mul(Mul(Mul(Pow(Rm,
        (-l) - 1), Pow(Rm, (-l) + 1)), Pow(Rp, l + 2)), Pow(Rp, (-l) + 1)), Pow(Rd, l)), Pow(Rd,
        (-l) - 1)), Pow(Rd, l + 2))), Mul(Mul(Mul(Mul(Mul(Mul(Pow(Rm, l + 2), Pow(Rm, (-l) + 1)),
        Pow(Rp, (-l) - 1)), Pow(Rp, l + 2)), Pow(Rd, l)), Pow(Rd, (-l) - 1)), Pow(Rd, (-l) + 1))),
        Mul(Mul(Mul(Mul(Mul(Mul(Mul(R(2), Pow(Rm, l + 2)), Pow(Rm, (-l) + 1)), Pow(Rp, (-l) - 1)),
        Pow(Rp, (-l) + 1)), Pow(Rd, l)), Pow(Rd, (-l) - 1)), Pow(Rd, l + 2)))),
        Add(Add(Sub(Sub(Add(Sub(Sub(Sub(Add(Add(Sub(Mul(Mul(Mul(Mul(Mul(R(8), Pow(Rm, l)), Pow(Rm,
        (-l) - 1)), Pow(Rp, l + 2)), Pow(Rp, (-l) + 1)), R(l ^ 3)), Mul(Mul(Mul(Mul(Mul(R(8),
        Pow(Rm, l + 2)), Pow(Rm, (-l) + 1)), Pow(Rp, l)), Pow(Rp, (-l) - 1)), R(l ^ 3))),
        Mul(Mul(Mul(Mul(Mul(R(4), Pow(Rm, l)), Pow(Rm, (-l) - 1)), Pow(Rp, l + 2)), Pow(Rp,
        (-l) + 1)), R(l ^ 2))), Mul(Mul(Mul(Mul(Mul(R(8), Pow(Rm, l)), Pow(Rm, l + 2)), Pow(Rp,
        (-l) - 1)), Pow(Rp, (-l) + 1)), R(l ^ 2))), Mul(Mul(Mul(Mul(Mul(R(8), Pow(Rm, (-l) - 1)),
        Pow(Rm, (-l) + 1)), Pow(Rp, l)), Pow(Rp, l + 2)), R(l ^ 2))), Mul(Mul(Mul(Mul(Mul(R(4),
        Pow(Rm, l + 2)), Pow(Rm, (-l) + 1)), Pow(Rp, l)), Pow(Rp, (-l) - 1)), R(l ^ 2))),
        Mul(Mul(Mul(Mul(Mul(R(2), Pow(Rm, l)), Pow(Rm, (-l) - 1)), Pow(Rp, l + 2)), Pow(Rp,
        (-l) + 1)), R(l))), Mul(Mul(Mul(Mul(Mul(R(2), Pow(Rm, l + 2)), Pow(Rm, (-l) + 1)), Pow(Rp,
        l)), Pow(Rp, (-l) - 1)), R(l))), Mul(Mul(Mul(Pow(Rm, l), Pow(Rm, (-l) - 1)), Pow(Rp,
        l + 2)), Pow(Rp, (-l) + 1))), Mul(Mul(Mul(Mul(R(2), Pow(Rm, l)), Pow(Rm, l + 2)), Pow(Rp,
        (-l) - 1)), Pow(Rp, (-l) + 1))), Mul(Mul(Mul(Mul(R(2), Pow(Rm, (-l) - 1)), Pow(Rm,
        (-l) + 1)), Pow(Rp, l)), Pow(Rp, l + 2))), Mul(Mul(Mul(Pow(Rm, l + 2), Pow(Rm, (-l) + 1)),
        Pow(Rp, l)), Pow(Rp, (-l) - 1)))), Pow(Rd, (-l) + 1)), Pow(Rd, l + 2)), Pow(Rd, (-l) - 1)),
        Pow(Rd, l)), nu), R(2))

sphere_delta_nsfs_Bp(Rp, Rm, Rd, l, g, nu) ==
    Div(Div(Div(Div(Div(Div(Div(Mul(Mul(Div(Neg(Sub(Add(Sub(Sub(Add(Add(Sub(Sub(Add(Mul(Mul(Mul(Mul(Mul(Mul(Mul(Mul(R(2),
        Pow(Rm, l)), Pow(Rm, (-l) - 1)), Pow(Rp, l + 2)), Pow(Rp, (-l) + 1)), Pow(Rd, l)), Pow(Rd,
        l + 2)), Pow(Rd, (-l) + 1)), R(l)), Mul(Mul(Mul(Mul(Mul(Mul(Mul(Mul(R(2), Pow(Rm, l)),
        Pow(Rm, l + 2)), Pow(Rp, l)), Pow(Rp, (-l) + 1)), Pow(Rd, (-l) - 1)), Pow(Rd, l + 2)),
        Pow(Rd, (-l) + 1)), R(l))), Mul(Mul(Mul(Mul(Mul(Mul(Mul(Mul(R(2), Pow(Rm, l)), Pow(Rm,
        l + 2)), Pow(Rp, l + 2)), Pow(Rp, (-l) + 1)), Pow(Rd, l)), Pow(Rd, (-l) - 1)), Pow(Rd,
        (-l) + 1)), R(l))), Mul(Mul(Mul(Mul(Mul(Mul(Mul(Mul(R(2), Pow(Rm, l + 2)), Pow(Rm,
        (-l) + 1)), Pow(Rp, l)), Pow(Rp, (-l) + 1)), Pow(Rd, l)), Pow(Rd, (-l) - 1)), Pow(Rd,
        l + 2)), R(l))), Mul(Mul(Mul(Mul(Mul(Mul(Pow(Rm, l), Pow(Rm, (-l) - 1)), Pow(Rp, l + 2)),
        Pow(Rp, (-l) + 1)), Pow(Rd, l)), Pow(Rd, l + 2)), Pow(Rd, (-l) + 1))),
        Mul(Mul(Mul(Mul(Mul(Mul(Mul(R(3), Pow(Rm, l)), Pow(Rm, l + 2)), Pow(Rp, l)), Pow(Rp,
        (-l) + 1)), Pow(Rd, (-l) - 1)), Pow(Rd, l + 2)), Pow(Rd, (-l) + 1))),
        Mul(Mul(Mul(Mul(Mul(Mul(Pow(Rm, l), Pow(Rm, l + 2)), Pow(Rp, l + 2)), Pow(Rp, (-l) + 1)),
        Pow(Rd, l)), Pow(Rd, (-l) - 1)), Pow(Rd, (-l) + 1))), Mul(Mul(Mul(Mul(Mul(Mul(Mul(R(2),
        Pow(Rm, (-l) - 1)), Pow(Rm, (-l) + 1)), Pow(Rp, l)), Pow(Rp, l + 2)), Pow(Rd, l)), Pow(Rd,
        l + 2)), Pow(Rd, (-l) + 1))), Mul(Mul(Mul(Mul(Mul(Mul(Mul(R(2), Pow(Rm, l + 2)), Pow(Rm,
        (-l) + 1)), Pow(Rp, l)), Pow(Rp, l + 2)), Pow(Rd, l)), Pow(Rd, (-l) - 1)), Pow(Rd,
        (-l) + 1))), Mul(Mul(Mul(Mul(Mul(Mul(Mul(R(3), Pow(Rm, l + 2)), Pow(Rm, (-l) + 1)), Pow(Rp,
        l)), Pow(Rp, (-l) + 1)), Pow(Rd, l)), Pow(Rd, (-l) - 1)), Pow(Rd, l + 2)))), Pow(Rd, l)),
        g), Pow(Rd, 2)), nu), Pow(Rd, (-l) - 1)), Pow(Rd, l + 2)), Pow(Rd, (-l) + 1)),
        Sub(Sub(Add(Add(Sub(Sub(Add(Add(Sub(Mul(Mul(Mul(Mul(Mul(R(4), Pow(Rm, l)), Pow(Rm,
        (-l) - 1)), Pow(Rp, l + 2)), Pow(Rp, (-l) + 1)), R(l ^ 2)), Mul(Mul(Mul(Mul(Mul(R(4),
        Pow(Rm, l + 2)), Pow(Rm, (-l) + 1)), Pow(Rp, l)), Pow(Rp, (-l) - 1)), R(l ^ 2))),
        Mul(Mul(Mul(Mul(Mul(R(4), Pow(Rm, l)), Pow(Rm, (-l) - 1)), Pow(Rp, l + 2)), Pow(Rp,
        (-l) + 1)), R(l))), Mul(Mul(Mul(Mul(Mul(R(4), Pow(Rm, l)), Pow(Rm, l + 2)), Pow(Rp,
        (-l) - 1)), Pow(Rp, (-l) + 1)), R(l))), Mul(Mul(Mul(Mul(Mul(R(4), Pow(Rm, (-l) - 1)),
        Pow(Rm, (-l) + 1)), Pow(Rp, l)), Pow(Rp, l + 2)), R(l))), Mul(Mul(Mul(Mul(Mul(R(4), Pow(Rm,
        l + 2)), Pow(Rm, (-l) + 1)), Pow(Rp, l)), Pow(Rp, (-l) - 1)), R(l))), Mul(Mul(Mul(Pow(Rm,
        l), Pow(Rm, (-l) - 1)), Pow(Rp, l + 2)), Pow(Rp, (-l) + 1))), Mul(Mul(Mul(Mul(R(2), Pow(Rm,
        l)), Pow(Rm, l + 2)), Pow(Rp, (-l) - 1)), Pow(Rp, (-l) + 1))), Mul(Mul(Mul(Mul(R(2),
        Pow(Rm, (-l) - 1)), Pow(Rm, (-l) + 1)), Pow(Rp, l)), Pow(Rp, l + 2))), Mul(Mul(Mul(Pow(Rm,
        l + 2), Pow(Rm, (-l) + 1)), Pow(Rp, l)), Pow(Rp, (-l) - 1)))), R(3 + (2 * l))), R(2))

sphere_delta_nsfs_Cp(Rp, Rm, Rd, l, g, nu) ==
    Div(Div(Div(Div(Div(Div(Div(Div(Mul(Mul(Pow(Rd, 2), g),
        Sub(Sub(Add(Add(Sub(Add(Sub(Sub(Add(Mul(Mul(Mul(Mul(Mul(Mul(Mul(Mul(R(2), Pow(Rm, l)),
        Pow(Rm, (-l) - 1)), Pow(Rp, l)), Pow(Rp, (-l) + 1)), Pow(Rd, (-l) - 1)), Pow(Rd, l + 2)),
        Pow(Rd, (-l) + 1)), R(l)), Mul(Mul(Mul(Mul(Mul(Mul(Mul(Mul(R(2), Pow(Rm, (-l) - 1)),
        Pow(Rm, (-l) + 1)), Pow(Rp, l)), Pow(Rp, (-l) - 1)), Pow(Rd, l)), Pow(Rd, l + 2)), Pow(Rd,
        (-l) + 1)), R(l))), Mul(Mul(Mul(Mul(Mul(Mul(Mul(Mul(R(2), Pow(Rm, (-l) - 1)), Pow(Rm,
        (-l) + 1)), Pow(Rp, l)), Pow(Rp, (-l) + 1)), Pow(Rd, l)), Pow(Rd, (-l) - 1)), Pow(Rd,
        l + 2)), R(l))), Mul(Mul(Mul(Mul(Mul(Mul(Mul(Mul(R(2), Pow(Rm, l + 2)), Pow(Rm, (-l) + 1)),
        Pow(Rp, l)), Pow(Rp, (-l) - 1)), Pow(Rd, l)), Pow(Rd, (-l) - 1)), Pow(Rd, (-l) + 1)),
        R(l))), Mul(Mul(Mul(Mul(Mul(Mul(Mul(R(3), Pow(Rm, l)), Pow(Rm, (-l) - 1)), Pow(Rp, l)),
        Pow(Rp, (-l) + 1)), Pow(Rd, (-l) - 1)), Pow(Rd, l + 2)), Pow(Rd, (-l) + 1))),
        Mul(Mul(Mul(Mul(Mul(Mul(Mul(R(2), Pow(Rm, l)), Pow(Rm, (-l) - 1)), Pow(Rp, (-l) - 1)),
        Pow(Rp, (-l) + 1)), Pow(Rd, l)), Pow(Rd, l + 2)), Pow(Rd, (-l) + 1))),
        Mul(Mul(Mul(Mul(Mul(Mul(Mul(R(2), Pow(Rm, l)), Pow(Rm, l + 2)), Pow(Rp, (-l) - 1)), Pow(Rp,
        (-l) + 1)), Pow(Rd, l)), Pow(Rd, (-l) - 1)), Pow(Rd, (-l) + 1))),
        Mul(Mul(Mul(Mul(Mul(Mul(Pow(Rm, (-l) - 1), Pow(Rm, (-l) + 1)), Pow(Rp, l)), Pow(Rp,
        (-l) - 1)), Pow(Rd, l)), Pow(Rd, l + 2)), Pow(Rd, (-l) + 1))),
        Mul(Mul(Mul(Mul(Mul(Mul(Mul(R(3), Pow(Rm, (-l) - 1)), Pow(Rm, (-l) + 1)), Pow(Rp, l)),
        Pow(Rp, (-l) + 1)), Pow(Rd, l)), Pow(Rd, (-l) - 1)), Pow(Rd, l + 2))),
        Mul(Mul(Mul(Mul(Mul(Mul(Pow(Rm, l + 2), Pow(Rm, (-l) + 1)), Pow(Rp, l)), Pow(Rp,
        (-l) - 1)), Pow(Rd, l)), Pow(Rd, (-l) - 1)), Pow(Rd, (-l) + 1)))), Pow(Rd, l)), nu),
        Pow(Rd, (-l) - 1)), Pow(Rd, l + 2)), Pow(Rd, (-l) + 1)),
        Sub(Sub(Add(Add(Sub(Sub(Add(Add(Sub(Mul(Mul(Mul(Mul(Mul(R(4), Pow(Rm, l)), Pow(Rm,
        (-l) - 1)), Pow(Rp, l + 2)), Pow(Rp, (-l) + 1)), R(l ^ 2)), Mul(Mul(Mul(Mul(Mul(R(4),
        Pow(Rm, l + 2)), Pow(Rm, (-l) + 1)), Pow(Rp, l)), Pow(Rp, (-l) - 1)), R(l ^ 2))),
        Mul(Mul(Mul(Mul(Mul(R(4), Pow(Rm, l)), Pow(Rm, (-l) - 1)), Pow(Rp, l + 2)), Pow(Rp,
        (-l) + 1)), R(l))), Mul(Mul(Mul(Mul(Mul(R(4), Pow(Rm, l)), Pow(Rm, l + 2)), Pow(Rp,
        (-l) - 1)), Pow(Rp, (-l) + 1)), R(l))), Mul(Mul(Mul(Mul(Mul(R(4), Pow(Rm, (-l) - 1)),
        Pow(Rm, (-l) + 1)), Pow(Rp, l)), Pow(Rp, l + 2)), R(l))), Mul(Mul(Mul(Mul(Mul(R(4), Pow(Rm,
        l + 2)), Pow(Rm, (-l) + 1)), Pow(Rp, l)), Pow(Rp, (-l) - 1)), R(l))), Mul(Mul(Mul(Pow(Rm,
        l), Pow(Rm, (-l) - 1)), Pow(Rp, l + 2)), Pow(Rp, (-l) + 1))), Mul(Mul(Mul(Mul(R(2), Pow(Rm,
        l)), Pow(Rm, l + 2)), Pow(Rp, (-l) - 1)), Pow(Rp, (-l) + 1))), Mul(Mul(Mul(Mul(R(2),
        Pow(Rm, (-l) - 1)), Pow(Rm, (-l) + 1)), Pow(Rp, l)), Pow(Rp, l + 2))), Mul(Mul(Mul(Pow(Rm,
        l + 2), Pow(Rm, (-l) + 1)), Pow(Rp, l)), Pow(Rp, (-l) - 1)))), R(3 + (2 * l))), R(2))

sphere_delta_nsfs_Dp(Rp, Rm, Rd, l, g, nu) ==
    Div(Mul(Mul(Div(Div(Div(Div(Div(Div(Sub(Sub(Add(Add(Sub(Add(Sub(Sub(Add(Mul(Mul(Mul(Mul(Mul(Mul(Mul(Mul(R(2),
        Pow(Rm, l)), Pow(Rm, (-l) - 1)), Pow(Rp, (-l) - 1)), Pow(Rp, l + 2)), Pow(Rd, l)), Pow(Rd,
        l + 2)), Pow(Rd, (-l) + 1)), R(l)), Mul(Mul(Mul(Mul(Mul(Mul(Mul(Mul(R(2), Pow(Rm, l)),
        Pow(Rm, l + 2)), Pow(Rp, l)), Pow(Rp, (-l) - 1)), Pow(Rd, (-l) - 1)), Pow(Rd, l + 2)),
        Pow(Rd, (-l) + 1)), R(l))), Mul(Mul(Mul(Mul(Mul(Mul(Mul(Mul(R(2), Pow(Rm, l)), Pow(Rm,
        l + 2)), Pow(Rp, (-l) - 1)), Pow(Rp, l + 2)), Pow(Rd, l)), Pow(Rd, (-l) - 1)), Pow(Rd,
        (-l) + 1)), R(l))), Mul(Mul(Mul(Mul(Mul(Mul(Mul(Mul(R(2), Pow(Rm, l + 2)), Pow(Rm,
        (-l) + 1)), Pow(Rp, l)), Pow(Rp, (-l) - 1)), Pow(Rd, l)), Pow(Rd, (-l) - 1)), Pow(Rd,
        l + 2)), R(l))), Mul(Mul(Mul(Mul(Mul(Mul(Mul(R(2), Pow(Rm, l)), Pow(Rm, (-l) - 1)), Pow(Rp,
        l)), Pow(Rp, l + 2)), Pow(Rd, (-l) - 1)), Pow(Rd, l + 2)), Pow(Rd, (-l) + 1))),
        Mul(Mul(Mul(Mul(Mul(Mul(Pow(Rm, l), Pow(Rm, (-l) - 1)), Pow(Rp, (-l) - 1)), Pow(Rp,
        l + 2)), Pow(Rd, l)), Pow(Rd, l + 2)), Pow(Rd, (-l) + 1))), Mul(Mul(Mul(Mul(Mul(Mul(Pow(Rm,
        l), Pow(Rm, l + 2)), Pow(Rp, l)), Pow(Rp, (-l) - 1)), Pow(Rd, (-l) - 1)), Pow(Rd, l + 2)),
        Pow(Rd, (-l) + 1))), Mul(Mul(Mul(Mul(Mul(Mul(Pow(Rm, l), Pow(Rm, l + 2)), Pow(Rp,
        (-l) - 1)), Pow(Rp, l + 2)), Pow(Rd, l)), Pow(Rd, (-l) - 1)), Pow(Rd, (-l) + 1))),
        Mul(Mul(Mul(Mul(Mul(Mul(Mul(R(2), Pow(Rm, (-l) - 1)), Pow(Rm, (-l) + 1)), Pow(Rp, l)),
        Pow(Rp, l + 2)), Pow(Rd, l)), Pow(Rd, (-l) - 1)), Pow(Rd, l + 2))),
        Mul(Mul(Mul(Mul(Mul(Mul(Pow(Rm, l + 2), Pow(Rm, (-l) + 1)), Pow(Rp, l)), Pow(Rp,
        (-l) - 1)), Pow(Rd, l)), Pow(Rd, (-l) - 1)), Pow(Rd, l + 2))),
        Add(Add(Sub(Sub(Add(Sub(Sub(Sub(Add(Add(Sub(Mul(Mul(Mul(Mul(Mul(R(8), Pow(Rm, l)), Pow(Rm,
        (-l) - 1)), Pow(Rp, l + 2)), Pow(Rp, (-l) + 1)), R(l ^ 3)), Mul(Mul(Mul(Mul(Mul(R(8),
        Pow(Rm, l + 2)), Pow(Rm, (-l) + 1)), Pow(Rp, l)), Pow(Rp, (-l) - 1)), R(l ^ 3))),
        Mul(Mul(Mul(Mul(Mul(R(4), Pow(Rm, l)), Pow(Rm, (-l) - 1)), Pow(Rp, l + 2)), Pow(Rp,
        (-l) + 1)), R(l ^ 2))), Mul(Mul(Mul(Mul(Mul(R(8), Pow(Rm, l)), Pow(Rm, l + 2)), Pow(Rp,
        (-l) - 1)), Pow(Rp, (-l) + 1)), R(l ^ 2))), Mul(Mul(Mul(Mul(Mul(R(8), Pow(Rm, (-l) - 1)),
        Pow(Rm, (-l) + 1)), Pow(Rp, l)), Pow(Rp, l + 2)), R(l ^ 2))), Mul(Mul(Mul(Mul(Mul(R(4),
        Pow(Rm, l + 2)), Pow(Rm, (-l) + 1)), Pow(Rp, l)), Pow(Rp, (-l) - 1)), R(l ^ 2))),
        Mul(Mul(Mul(Mul(Mul(R(2), Pow(Rm, l)), Pow(Rm, (-l) - 1)), Pow(Rp, l + 2)), Pow(Rp,
        (-l) + 1)), R(l))), Mul(Mul(Mul(Mul(Mul(R(2), Pow(Rm, l + 2)), Pow(Rm, (-l) + 1)), Pow(Rp,
        l)), Pow(Rp, (-l) - 1)), R(l))), Mul(Mul(Mul(Pow(Rm, l), Pow(Rm, (-l) - 1)), Pow(Rp,
        l + 2)), Pow(Rp, (-l) + 1))), Mul(Mul(Mul(Mul(R(2), Pow(Rm, l)), Pow(Rm, l + 2)), Pow(Rp,
        (-l) - 1)), Pow(Rp, (-l) + 1))), Mul(Mul(Mul(Mul(R(2), Pow(Rm, (-l) - 1)), Pow(Rm,
        (-l) + 1)), Pow(Rp, l)), Pow(Rp, l + 2))), Mul(Mul(Mul(Pow(Rm, l + 2), Pow(Rm, (-l) + 1)),
        Pow(Rp, l)), Pow(Rp, (-l) - 1)))), Pow(Rd, (-l) + 1)), Pow(Rd, l + 2)), Pow(Rd, (-l) - 1)),
        Pow(Rd, l)), nu), g), Pow(Rd, 2)), R(2))

sphere_delta_nsfs_Am(Rp, Rm, Rd, l, g, nu) ==
    Div(Mul(Mul(Mul(Mul(Div(Div(Div(Div(Div(Div(R(-1),
        Add(Add(Sub(Sub(Add(Sub(Sub(Sub(Add(Add(Sub(Mul(Mul(Mul(Mul(Mul(R(8), Pow(Rm, l)), Pow(Rm,
        (-l) - 1)), Pow(Rp, l + 2)), Pow(Rp, (-l) + 1)), R(l ^ 3)), Mul(Mul(Mul(Mul(Mul(R(8),
        Pow(Rm, l + 2)), Pow(Rm, (-l) + 1)), Pow(Rp, l)), Pow(Rp, (-l) - 1)), R(l ^ 3))),
        Mul(Mul(Mul(Mul(Mul(R(4), Pow(Rm, l)), Pow(Rm, (-l) - 1)), Pow(Rp, l + 2)), Pow(Rp,
        (-l) + 1)), R(l ^ 2))), Mul(Mul(Mul(Mul(Mul(R(8), Pow(Rm, l)), Pow(Rm, l + 2)), Pow(Rp,
        (-l) - 1)), Pow(Rp, (-l) + 1)), R(l ^ 2))), Mul(Mul(Mul(Mul(Mul(R(8), Pow(Rm, (-l) - 1)),
        Pow(Rm, (-l) + 1)), Pow(Rp, l)), Pow(Rp, l + 2)), R(l ^ 2))), Mul(Mul(Mul(Mul(Mul(R(4),
        Pow(Rm, l + 2)), Pow(Rm, (-l) + 1)), Pow(Rp, l)), Pow(Rp, (-l) - 1)), R(l ^ 2))),
        Mul(Mul(Mul(Mul(Mul(R(2), Pow(Rm, l)), Pow(Rm, (-l) - 1)), Pow(Rp, l + 2)), Pow(Rp,
        (-l) + 1)), R(l))), Mul(Mul(Mul(Mul(Mul(R(2), Pow(Rm, l + 2)), Pow(Rm, (-l) + 1)), Pow(Rp,
        l)), Pow(Rp, (-l) - 1)), R(l))), Mul(Mul(Mul(Pow(Rm, l), Pow(Rm, (-l) - 1)), Pow(Rp,
        l + 2)), Pow(Rp, (-l) + 1))), Mul(Mul(Mul(Mul(R(2), Pow(Rm, l)), Pow(Rm, l + 2)), Pow(Rp,
        (-l) - 1)), Pow(Rp, (-l) + 1))), Mul(Mul(Mul(Mul(R(2), Pow(Rm, (-l) - 1)), Pow(Rm,
        (-l) + 1)), Pow(Rp, l)), Pow(Rp, l + 2))), Mul(Mul(Mul(Pow(Rm, l + 2), Pow(Rm, (-l) + 1)),
        Pow(Rp, l)), Pow(Rp, (-l) - 1)))), Pow(Rd, (-l) + 1)), Pow(Rd, l + 2)), Pow(Rd, (-l) - 1)),
        Pow(Rd, l)), nu), Sub(Add(Add(Sub(Sub(Add(Sub(Add(Sub(Mul(Mul(Mul(Mul(Mul(Mul(Mul(R(2),
        Pow(Rm, (-l) - 1)), Pow(Rp, (-l) - 1)), Pow(Rp, l + 2)), Pow(Rd, l)), Pow(Rd, l + 2)),
        Pow(Rd, (-l) + 1)), R(l)), Mul(Mul(Mul(Mul(Mul(Mul(Mul(R(2), Pow(Rm, (-l) - 1)), Pow(Rp,
        l + 2)), Pow(Rp, (-l) + 1)), Pow(Rd, l)), Pow(Rd, (-l) - 1)), Pow(Rd, l + 2)), R(l))),
        Mul(Mul(Mul(Mul(Mul(Mul(Mul(R(2), Pow(Rm, l + 2)), Pow(Rp, l)), Pow(Rp, (-l) - 1)), Pow(Rd,
        (-l) - 1)), Pow(Rd, l + 2)), Pow(Rd, (-l) + 1)), R(l))), Mul(Mul(Mul(Mul(Mul(Mul(Mul(R(2),
        Pow(Rm, l + 2)), Pow(Rp, (-l) - 1)), Pow(Rp, l + 2)), Pow(Rd, l)), Pow(Rd, (-l) - 1)),
        Pow(Rd, (-l) + 1)), R(l))), Mul(Mul(Mul(Mul(Mul(Mul(R(2), Pow(Rm, (-l) - 1)), Pow(Rp, l)),
        Pow(Rp, l + 2)), Pow(Rd, (-l) - 1)), Pow(Rd, l + 2)), Pow(Rd, (-l) + 1))),
        Mul(Mul(Mul(Mul(Mul(Pow(Rm, (-l) - 1), Pow(Rp, (-l) - 1)), Pow(Rp, l + 2)), Pow(Rd, l)),
        Pow(Rd, l + 2)), Pow(Rd, (-l) + 1))), Mul(Mul(Mul(Mul(Mul(Pow(Rm, (-l) - 1), Pow(Rp,
        l + 2)), Pow(Rp, (-l) + 1)), Pow(Rd, l)), Pow(Rd, (-l) - 1)), Pow(Rd, l + 2))),
        Mul(Mul(Mul(Mul(Mul(Pow(Rm, l + 2), Pow(Rp, l)), Pow(Rp, (-l) - 1)), Pow(Rd, (-l) - 1)),
        Pow(Rd, l + 2)), Pow(Rd, (-l) + 1))), Mul(Mul(Mul(Mul(Mul(Pow(Rm, l + 2), Pow(Rp,
        (-l) - 1)), Pow(Rp, l + 2)), Pow(Rd, l)), Pow(Rd, (-l) - 1)), Pow(Rd, (-l) + 1))),
        Mul(Mul(Mul(Mul(Mul(Mul(R(2), Pow(Rm, l + 2)), Pow(Rp, (-l) - 1)), Pow(Rp, (-l) + 1)),
        Pow(Rd, l)), Pow(Rd, (-l) - 1)), Pow(Rd, l + 2)))), g), Pow(Rd, 2)), Pow(Rm, (-l) + 1)),
        R(2))

sphere_delta_nsfs_Bm(Rp, Rm, Rd, l, g, nu) ==
    Div(Div(Div(Div(Div(Div(Div(Div(Mul(Mul(Mul(Neg(Pow(Rm, l + 2)),
        Sub(Add(Add(Sub(Sub(Add(Sub(Add(Sub(Mul(Mul(Mul(Mul(Mul(Mul(Mul(R(2), Pow(Rm, l)), Pow(Rp,
        l)), Pow(Rp, (-l) + 1)), Pow(Rd, (-l) - 1)), Pow(Rd, l + 2)), Pow(Rd, (-l) + 1)), R(l)),
        Mul(Mul(Mul(Mul(Mul(Mul(Mul(R(2), Pow(Rm, l)), Pow(Rp, l + 2)), Pow(Rp, (-l) + 1)), Pow(Rd,
        l)), Pow(Rd, (-l) - 1)), Pow(Rd, (-l) + 1)), R(l))), Mul(Mul(Mul(Mul(Mul(Mul(Mul(R(2),
        Pow(Rm, (-l) + 1)), Pow(Rp, l)), Pow(Rp, (-l) - 1)), Pow(Rd, l)), Pow(Rd, l + 2)), Pow(Rd,
        (-l) + 1)), R(l))), Mul(Mul(Mul(Mul(Mul(Mul(Mul(R(2), Pow(Rm, (-l) + 1)), Pow(Rp, l)),
        Pow(Rp, (-l) + 1)), Pow(Rd, l)), Pow(Rd, (-l) - 1)), Pow(Rd, l + 2)), R(l))),
        Mul(Mul(Mul(Mul(Mul(Mul(R(3), Pow(Rm, l)), Pow(Rp, l)), Pow(Rp, (-l) + 1)), Pow(Rd,
        (-l) - 1)), Pow(Rd, l + 2)), Pow(Rd, (-l) + 1))), Mul(Mul(Mul(Mul(Mul(Mul(R(2), Pow(Rm,
        l)), Pow(Rp, (-l) - 1)), Pow(Rp, (-l) + 1)), Pow(Rd, l)), Pow(Rd, l + 2)), Pow(Rd,
        (-l) + 1))), Mul(Mul(Mul(Mul(Mul(Pow(Rm, l), Pow(Rp, l + 2)), Pow(Rp, (-l) + 1)), Pow(Rd,
        l)), Pow(Rd, (-l) - 1)), Pow(Rd, (-l) + 1))), Mul(Mul(Mul(Mul(Mul(Pow(Rm, (-l) + 1),
        Pow(Rp, l)), Pow(Rp, (-l) - 1)), Pow(Rd, l)), Pow(Rd, l + 2)), Pow(Rd, (-l) + 1))),
        Mul(Mul(Mul(Mul(Mul(Mul(R(2), Pow(Rm, (-l) + 1)), Pow(Rp, l)), Pow(Rp, l + 2)), Pow(Rd,
        l)), Pow(Rd, (-l) - 1)), Pow(Rd, (-l) + 1))), Mul(Mul(Mul(Mul(Mul(Mul(R(3), Pow(Rm,
        (-l) + 1)), Pow(Rp, l)), Pow(Rp, (-l) + 1)), Pow(Rd, l)), Pow(Rd, (-l) - 1)), Pow(Rd,
        l + 2)))), g), Pow(Rd, 2)), Sub(Sub(Add(Add(Sub(Sub(Add(Add(Sub(Mul(Mul(Mul(Mul(Mul(R(4),
        Pow(Rm, l)), Pow(Rm, (-l) - 1)), Pow(Rp, l + 2)), Pow(Rp, (-l) + 1)), R(l ^ 2)),
        Mul(Mul(Mul(Mul(Mul(R(4), Pow(Rm, l + 2)), Pow(Rm, (-l) + 1)), Pow(Rp, l)), Pow(Rp,
        (-l) - 1)), R(l ^ 2))), Mul(Mul(Mul(Mul(Mul(R(4), Pow(Rm, l)), Pow(Rm, (-l) - 1)), Pow(Rp,
        l + 2)), Pow(Rp, (-l) + 1)), R(l))), Mul(Mul(Mul(Mul(Mul(R(4), Pow(Rm, l)), Pow(Rm,
        l + 2)), Pow(Rp, (-l) - 1)), Pow(Rp, (-l) + 1)), R(l))), Mul(Mul(Mul(Mul(Mul(R(4), Pow(Rm,
        (-l) - 1)), Pow(Rm, (-l) + 1)), Pow(Rp, l)), Pow(Rp, l + 2)), R(l))),
        Mul(Mul(Mul(Mul(Mul(R(4), Pow(Rm, l + 2)), Pow(Rm, (-l) + 1)), Pow(Rp, l)), Pow(Rp,
        (-l) - 1)), R(l))), Mul(Mul(Mul(Pow(Rm, l), Pow(Rm, (-l) - 1)), Pow(Rp, l + 2)), Pow(Rp,
        (-l) + 1))), Mul(Mul(Mul(Mul(R(2), Pow(Rm, l)), Pow(Rm, l + 2)), Pow(Rp, (-l) - 1)),
        Pow(Rp, (-l) + 1))), Mul(Mul(Mul(Mul(R(2), Pow(Rm, (-l) - 1)), Pow(Rm, (-l) + 1)), Pow(Rp,
        l)), Pow(Rp, l + 2))), Mul(Mul(Mul(Pow(Rm, l + 2), Pow(Rm, (-l) + 1)), Pow(Rp, l)), Pow(Rp,
        (-l) - 1)))), R(3 + (2 * l))), Pow(Rd, (-l) + 1)), Pow(Rd, l + 2)), Pow(Rd, (-l) - 1)),
        nu), Pow(Rd, l)), R(2))

sphere_delta_nsfs_Cm(Rp, Rm, Rd, l, g, nu) ==
    Div(Div(Div(Div(Div(Div(Div(Div(Mul(Mul(Mul(Sub(Add(Add(Sub(Sub(Add(Sub(Add(Sub(Mul(Mul(Mul(Mul(Mul(Mul(Mul(R(2),
        Pow(Rm, l)), Pow(Rp, l)), Pow(Rp, (-l) + 1)), Pow(Rd, (-l) - 1)), Pow(Rd, l + 2)), Pow(Rd,
        (-l) + 1)), R(l)), Mul(Mul(Mul(Mul(Mul(Mul(Mul(R(2), Pow(Rm, l)), Pow(Rp, l + 2)), Pow(Rp,
        (-l) + 1)), Pow(Rd, l)), Pow(Rd, (-l) - 1)), Pow(Rd, (-l) + 1)), R(l))),
        Mul(Mul(Mul(Mul(Mul(Mul(Mul(R(2), Pow(Rm, (-l) + 1)), Pow(Rp, l)), Pow(Rp, (-l) - 1)),
        Pow(Rd, l)), Pow(Rd, l + 2)), Pow(Rd, (-l) + 1)), R(l))), Mul(Mul(Mul(Mul(Mul(Mul(Mul(R(2),
        Pow(Rm, (-l) + 1)), Pow(Rp, l)), Pow(Rp, (-l) + 1)), Pow(Rd, l)), Pow(Rd, (-l) - 1)),
        Pow(Rd, l + 2)), R(l))), Mul(Mul(Mul(Mul(Mul(Mul(R(3), Pow(Rm, l)), Pow(Rp, l)), Pow(Rp,
        (-l) + 1)), Pow(Rd, (-l) - 1)), Pow(Rd, l + 2)), Pow(Rd, (-l) + 1))),
        Mul(Mul(Mul(Mul(Mul(Mul(R(2), Pow(Rm, l)), Pow(Rp, (-l) - 1)), Pow(Rp, (-l) + 1)), Pow(Rd,
        l)), Pow(Rd, l + 2)), Pow(Rd, (-l) + 1))), Mul(Mul(Mul(Mul(Mul(Pow(Rm, l), Pow(Rp, l + 2)),
        Pow(Rp, (-l) + 1)), Pow(Rd, l)), Pow(Rd, (-l) - 1)), Pow(Rd, (-l) + 1))),
        Mul(Mul(Mul(Mul(Mul(Pow(Rm, (-l) + 1), Pow(Rp, l)), Pow(Rp, (-l) - 1)), Pow(Rd, l)),
        Pow(Rd, l + 2)), Pow(Rd, (-l) + 1))), Mul(Mul(Mul(Mul(Mul(Mul(R(2), Pow(Rm, (-l) + 1)),
        Pow(Rp, l)), Pow(Rp, l + 2)), Pow(Rd, l)), Pow(Rd, (-l) - 1)), Pow(Rd, (-l) + 1))),
        Mul(Mul(Mul(Mul(Mul(Mul(R(3), Pow(Rm, (-l) + 1)), Pow(Rp, l)), Pow(Rp, (-l) + 1)), Pow(Rd,
        l)), Pow(Rd, (-l) - 1)), Pow(Rd, l + 2))), Pow(Rm, (-l) - 1)), g), Pow(Rd, 2)),
        Sub(Sub(Add(Add(Sub(Sub(Add(Add(Sub(Mul(Mul(Mul(Mul(Mul(R(4), Pow(Rm, l)), Pow(Rm,
        (-l) - 1)), Pow(Rp, l + 2)), Pow(Rp, (-l) + 1)), R(l ^ 2)), Mul(Mul(Mul(Mul(Mul(R(4),
        Pow(Rm, l + 2)), Pow(Rm, (-l) + 1)), Pow(Rp, l)), Pow(Rp, (-l) - 1)), R(l ^ 2))),
        Mul(Mul(Mul(Mul(Mul(R(4), Pow(Rm, l)), Pow(Rm, (-l) - 1)), Pow(Rp, l + 2)), Pow(Rp,
        (-l) + 1)), R(l))), Mul(Mul(Mul(Mul(Mul(R(4), Pow(Rm, l)), Pow(Rm, l + 2)), Pow(Rp,
        (-l) - 1)), Pow(Rp, (-l) + 1)), R(l))), Mul(Mul(Mul(Mul(Mul(R(4), Pow(Rm, (-l) - 1)),
        Pow(Rm, (-l) + 1)), Pow(Rp, l)), Pow(Rp, l + 2)), R(l))), Mul(Mul(Mul(Mul(Mul(R(4), Pow(Rm,
        l + 2)), Pow(Rm, (-l) + 1)), Pow(Rp, l)), Pow(Rp, (-l) - 1)), R(l))), Mul(Mul(Mul(Pow(Rm,
        l), Pow(Rm, (-l) - 1)), Pow(Rp, l + 2)), Pow(Rp, (-l) + 1))), Mul(Mul(Mul(Mul(R(2), Pow(Rm,
        l)), Pow(Rm, l + 2)), Pow(Rp, (-l) - 1)), Pow(Rp, (-l) + 1))), Mul(Mul(Mul(Mul(R(2),
        Pow(Rm, (-l) - 1)), Pow(Rm, (-l) + 1)), Pow(Rp, l)), Pow(Rp, l + 2))), Mul(Mul(Mul(Pow(Rm,
        l + 2), Pow(Rm, (-l) + 1)), Pow(Rp, l)), Pow(Rp, (-l) - 1)))), R(3 + (2 * l))), Pow(Rd,
        (-l) + 1)), Pow(Rd, l + 2)), Pow(Rd, (-l) - 1)), nu), Pow(Rd, l)), R(2))

sphere_delta_nsfs_Dm(Rp, Rm, Rd, l, g, nu) ==
    Div(Mul(Mul(Mul(Mul(Div(Div(Div(Div(Div(Div(R(1),
        Add(Add(Sub(Sub(Add(Sub(Sub(Sub(Add(Add(Sub(Mul(Mul(Mul(Mul(Mul(R(8), Pow(Rm, l)), Pow(Rm,
        (-l) - 1)), Pow(Rp, l + 2)), Pow(Rp, (-l) + 1)), R(l ^ 3)), Mul(Mul(Mul(Mul(Mul(R(8),
        Pow(Rm, l + 2)), Pow(Rm, (-l) + 1)), Pow(Rp, l)), Pow(Rp, (-l) - 1)), R(l ^ 3))),
        Mul(Mul(Mul(Mul(Mul(R(4), Pow(Rm, l)), Pow(Rm, (-l) - 1)), Pow(Rp, l + 2)), Pow(Rp,
        (-l) + 1)), R(l ^ 2))), Mul(Mul(Mul(Mul(Mul(R(8), Pow(Rm, l)), Pow(Rm, l + 2)), Pow(Rp,
        (-l) - 1)), Pow(Rp, (-l) + 1)), R(l ^ 2))), Mul(Mul(Mul(Mul(Mul(R(8), Pow(Rm, (-l) - 1)),
        Pow(Rm, (-l) + 1)), Pow(Rp, l)), Pow(Rp, l + 2)), R(l ^ 2))), Mul(Mul(Mul(Mul(Mul(R(4),
        Pow(Rm, l + 2)), Pow(Rm, (-l) + 1)), Pow(Rp, l)), Pow(Rp, (-l) - 1)), R(l ^ 2))),
        Mul(Mul(Mul(Mul(Mul(R(2), Pow(Rm, l)), Pow(Rm, (-l) - 1)), Pow(Rp, l + 2)), Pow(Rp,
        (-l) + 1)), R(l))), Mul(Mul(Mul(Mul(Mul(R(2), Pow(Rm, l + 2)), Pow(Rm, (-l) + 1)), Pow(Rp,
        l)), Pow(Rp, (-l) - 1)), R(l))), Mul(Mul(Mul(Pow(Rm, l), Pow(Rm, (-l) - 1)), Pow(Rp,
        l + 2)), Pow(Rp, (-l) + 1))), Mul(Mul(Mul(Mul(R(2), Pow(Rm, l)), Pow(Rm, l + 2)), Pow(Rp,
        (-l) - 1)), Pow(Rp, (-l) + 1))), Mul(Mul(Mul(Mul(R(2), Pow(Rm, (-l) - 1)), Pow(Rm,
        (-l) + 1)), Pow(Rp, l)), Pow(Rp, l + 2))), Mul(Mul(Mul(Pow(Rm, l + 2), Pow(Rm, (-l) + 1)),
        Pow(Rp, l)), Pow(Rp, (-l) - 1)))), Pow(Rd, (-l) + 1)), Pow(Rd, l + 2)), Pow(Rd, (-l) - 1)),
        Pow(Rd, l)), nu), Pow(Rm, l)),
        Sub(Add(Add(Sub(Sub(Add(Sub(Add(Sub(Mul(Mul(Mul(Mul(Mul(Mul(Mul(R(2), Pow(Rm, (-l) - 1)),
        Pow(Rp, (-l) - 1)), Pow(Rp, l + 2)), Pow(Rd, l)), Pow(Rd, l + 2)), Pow(Rd, (-l) + 1)),
        R(l)), Mul(Mul(Mul(Mul(Mul(Mul(Mul(R(2), Pow(Rm, (-l) - 1)), Pow(Rp, l + 2)), Pow(Rp,
        (-l) + 1)), Pow(Rd, l)), Pow(Rd, (-l) - 1)), Pow(Rd, l + 2)), R(l))),
        Mul(Mul(Mul(Mul(Mul(Mul(Mul(R(2), Pow(Rm, l + 2)), Pow(Rp, l)), Pow(Rp, (-l) - 1)), Pow(Rd,
        (-l) - 1)), Pow(Rd, l + 2)), Pow(Rd, (-l) + 1)), R(l))), Mul(Mul(Mul(Mul(Mul(Mul(Mul(R(2),
        Pow(Rm, l + 2)), Pow(Rp, (-l) - 1)), Pow(Rp, l + 2)), Pow(Rd, l)), Pow(Rd, (-l) - 1)),
        Pow(Rd, (-l) + 1)), R(l))), Mul(Mul(Mul(Mul(Mul(Mul(R(2), Pow(Rm, (-l) - 1)), Pow(Rp, l)),
        Pow(Rp, l + 2)), Pow(Rd, (-l) - 1)), Pow(Rd, l + 2)), Pow(Rd, (-l) + 1))),
        Mul(Mul(Mul(Mul(Mul(Pow(Rm, (-l) - 1), Pow(Rp, (-l) - 1)), Pow(Rp, l + 2)), Pow(Rd, l)),
        Pow(Rd, l + 2)), Pow(Rd, (-l) + 1))), Mul(Mul(Mul(Mul(Mul(Pow(Rm, (-l) - 1), Pow(Rp,
        l + 2)), Pow(Rp, (-l) + 1)), Pow(Rd, l)), Pow(Rd, (-l) - 1)), Pow(Rd, l + 2))),
        Mul(Mul(Mul(Mul(Mul(Pow(Rm, l + 2), Pow(Rp, l)), Pow(Rp, (-l) - 1)), Pow(Rd, (-l) - 1)),
        Pow(Rd, l + 2)), Pow(Rd, (-l) + 1))), Mul(Mul(Mul(Mul(Mul(Pow(Rm, l + 2), Pow(Rp,
        (-l) - 1)), Pow(Rp, l + 2)), Pow(Rd, l)), Pow(Rd, (-l) - 1)), Pow(Rd, (-l) + 1))),
        Mul(Mul(Mul(Mul(Mul(Mul(R(2), Pow(Rm, l + 2)), Pow(Rp, (-l) - 1)), Pow(Rp, (-l) + 1)),
        Pow(Rd, l)), Pow(Rd, (-l) - 1)), Pow(Rd, l + 2)))), g), Pow(Rd, 2)), R(2))

\* ------------------------------------------------------- the six functions

\* SliceStep that never reverses: [::1] whatever the sign.
SliceStepForward(seq, step) == seq

\* SliceStep that always reverses: [::-1] whatever the sign.
SliceStepBackward(seq, step) == [i \in 1..Len(seq) |-> seq[Len(seq) + 1 - i]]

\* seq[::step] of Python, for a step that is not 0.
SliceStep(seq, step) ==
    IF step > 0
    THEN [i \in 1..((Len(seq) + step - 1) \div step) |-> seq[1 + (i - 1) * step]]
    ELSE [i \in 1..((Len(seq) - step - 1) \div (-step)) |-> seq[Len(seq) + (i - 1) * step]]

\* The tuple of values, unless evaluating one of them raised.
Outcome(v) == IF \E i \in 1..Len(v) : Raised(v[i]) THEN ZeroDivisionError ELSE v

\* What a function that has built the expressions t computes from them.
Return(t) == Outcome([i \in 1..Len(t) |-> Eval(t[i])])

coefficients_cylinder_delta_fs(Rp, Rm, rp, n, g, nu, sign) ==
    LET alphas == SliceStep(<<Div(Rp, rp), Div(Rm, rp)>>, sign)
        alpha_pm == alphas[1]
        alpha_mp == alphas[2]
        pm == sign
    IN  Return(<<cylinder_delta_fs_A(rp, n, g, nu, alpha_pm, alpha_mp, pm),
                 cylinder_delta_fs_B(rp, n, g, nu, alpha_pm, alpha_mp, pm),
                 cylinder_delta_fs_C(rp, n, g, nu, alpha_pm, alpha_mp, pm),
                 cylinder_delta_fs_D(rp, n, g, nu, alpha_pm, alpha_mp, pm)>>)

coefficients_cylinder_delta_ns(Rp, Rm, rp, n, g, nu, sign) ==
    LET alpha_p == Div(Rp, rp)
        alpha_m == Div(Rm, rp)
        alphas == SliceStep(<<Div(Rp, rp), Div(Rm, rp)>>, sign)
        alpha_pm == alphas[1]
        alpha_mp == alphas[2]
        pm == sign
        mp == -sign
    IN  Return(<<cylinder_delta_ns_A(rp, n, g, nu, alpha_p, alpha_m, pm, mp),
                 cylinder_delta_ns_B(rp, n, g, nu, alpha_p, alpha_m, pm, mp),
                 cylinder_delta_ns_C(rp, n, g, nu, alpha_p, alpha_m, pm, mp),
                 cylinder_delta_ns_D(rp, n, g, nu, alpha_p, alpha_m, pm, mp)>>)

coefficients_sphere_delta_fs(Rp, Rm, rp, l, g, nu, sign) ==
    LET alphas == SliceStep(<<Div(Rp, rp), Div(Rm, rp)>>, sign)
        alpha_pm == alphas[1]
        alpha_mp == alphas[2]
        pm == sign
    IN  Return(<<sphere_delta_fs_A(rp, l, g, nu, alpha_pm, alpha_mp, pm),
                 sphere_delta_fs_B(rp, l, g, nu, alpha_pm, alpha_mp, pm),
                 sphere_delta_fs_C(rp, l, g, nu, alpha_pm, alpha_mp, pm),
                 sphere_delta_fs_D(rp, l, g, nu, alpha_pm, alpha_mp, pm)>>)

coefficients_sphere_delta_ns(Rp, Rm, rp, l, g, nu, sign) ==
    LET alpha_p == Div(Rp, rp)
        alpha_m == Div(Rm, rp)
        alphas == SliceStep(<<Div(Rp, rp), Div(Rm, rp)>>, sign)
        alpha_pm == alphas[1]
        alpha_mp == alphas[2]
        pm == sign
        mp == -sign
    IN  Return(<<sphere_delta_ns_A(rp, l, g, nu, alpha_p, alpha_m, pm, mp),
                 sphere_delta_ns_B(rp, l, g, nu, alpha_p, alpha_m, pm, mp),
                 sphere_delta_ns_C(rp, l, g, nu, alpha_p, alpha_m, pm, mp),
                 sphere_delta_ns_D(rp, l, g, nu, alpha_p, alpha_m, pm, mp)>>)

\* Both halves are computed before the sign picks one.
coefficients_cylinder_delta_nsfs(Rp, Rm, Rd, n, g, nu, sign) ==
    LET halves == Return(<<cylinder_delta_nsfs_Ap(Rp, Rm, Rd, n, g, nu),
                           cylinder_delta_nsfs_Bp(Rp, Rm, Rd, n, g, nu),
                           cylinder_delta_nsfs_Cp(Rp, Rm, Rd, n, g, nu),
                           cylinder_delta_nsfs_Dp(Rp, Rm, Rd, n, g, nu),
                           cylinder_delta_nsfs_Am(Rp, Rm, Rd, n, g, nu),
                           cylinder_delta_nsfs_Bm(Rp, Rm, Rd, n, g, nu),
                           cylinder_delta_nsfs_Cm(Rp, Rm, Rd, n, g, nu),
                           cylinder_delta_nsfs_Dm(Rp, Rm, Rd, n, g, nu)>>)
    IN  IF Raised(halves) THEN ZeroDivisionError
        ELSE IF sign > 0 THEN SubSeq(halves, 1, 4)
        ELSE SubSeq(halves, 5, 8)

coefficients_sphere_delta_nsfs(Rp, Rm, Rd, l, g, nu, sign) ==
    LET halves == Return(<<sphere_delta_nsfs_Ap(Rp, Rm, Rd, l, g, nu),
                           sphere_delta_nsfs_Bp(Rp, Rm, Rd, l, g, nu),
                           sphere_delta_nsfs_Cp(Rp, Rm, Rd, l, g, nu),
                           sphere_delta_nsfs_Dp(Rp, Rm, Rd, l, g, nu),
                           sphere_delta_nsfs_Am(Rp, Rm, Rd, l, g, nu),
                           sphere_delta_nsfs_Bm(Rp, Rm, Rd, l, g, nu),
                           sphere_delta_nsfs_Cm(Rp, Rm, Rd, l, g, nu),
                           sphere_delta_nsfs_Dm(Rp, Rm, Rd, l, g, nu)>>)
    IN  IF Raised(halves) THEN ZeroDivisionError
        ELSE IF sign > 0 THEN SubSeq(halves, 1, 4)
        ELSE SubSeq(halves, 5, 8)

\* ------------------------------------------------------------ the callers
\* A caller makes one call and then, to compare, one more call of the same
\* function with related arguments: the other half (sign flipped), the mirror
\* image (shell radii swapped, forcing negated, sign flipped) or the same
\* problem with every radius scaled. Arguments are in the order of the
\* signature: <<Rp, Rm, rp, degree, g, nu, sign>>.

\* The calls made so far, each with its arguments and what it returned or raised.
VARIABLE calls

vars == <<calls>>

MaxRadiusHalves == 5
MaxDegree == 3

Lt(x, y) == Minus(x, y)[1] < 0

Radii == {Q(k, 2) : k \in 2..MaxRadiusHalves}
Degrees == 0..MaxDegree
Forcings == {R(-2), R(1)}
Viscosities == {R(1), R(2)}
Signs == {1, -1}
Scales == {Q(1, 2), R(3)}

\* The anomaly strictly inside the shell: Rm < rp < Rp.
Geometries ==
    {t \in Radii \X Radii \X Radii : Lt(t[2], t[3]) /\ Lt(t[3], t[1])}

\* The anomaly on a boundary of the shell: Rm < Rp and rp = Rm or rp = Rp.
BoundaryGeometries ==
    {t \in Radii \X Radii \X Radii : Lt(t[2], t[1]) /\ (t[3] = t[2] \/ t[3] = t[1])}

ArgsOver(geometries) ==
    {<<t[1], t[2], t[3], d, g, nu, s>> :
        t \in geometries, d \in Degrees, g \in Forcings, nu \in Viscosities, s \in Signs}

Domain == ArgsOver(Geometries)
BoundaryDomain == ArgsOver(BoundaryGeometries)

Cylinder == {"cylinder_delta_fs", "cylinder_delta_ns", "cylinder_delta_nsfs"}
Sphere == {"sphere_delta_fs", "sphere_delta_ns", "sphere_delta_nsfs"}

Flip(a) == <<a[1], a[2], a[3], a[4], a[5], a[6], -a[7]>>
Mirror(a) == <<a[2], a[1], a[3], a[4], Negate(a[5]), a[6], -a[7]>>
Scale(k, a) == <<Times(k, a[1]), Times(k, a[2]), Times(k, a[3]), a[4], a[5], a[6], a[7]>>

\* What the second call may be, given the first: the other half after an upper
\* half, the mirror image after a lower half, and the scaled problems.
Related(a) ==
    (IF a[7] > 0 THEN {Flip(a)} ELSE {Mirror(a)}) \cup {Scale(k, a) : k \in Scales}

Init == calls = <<>>

\* The arguments of the next call: any of the domain, then one related to the first.
Arguments(domain) == IF calls = <<>> THEN domain ELSE Related(calls[1].args)

\* A call of fn has returned or raised ret; the caller keeps it.
Called(fn, a, ret) ==
    /\ Len(calls) < 2
    /\ calls # <<>> => calls[1].fn = fn
    /\ calls' = Append(calls, [fn |-> fn, args |-> a, ret |-> ret])

Call_cylinder_delta_fs(domain) ==
    \E a \in Arguments(domain) :
        Called("cylinder_delta_fs", a,
               coefficients_cylinder_delta_fs(a[1], a[2], a[3], a[4], a[5], a[6], a[7]))

Call_cylinder_delta_ns(domain) ==
    \E a \in Arguments(domain) :
        Called("cylinder_delta_ns", a,
               coefficients_cylinder_delta_ns(a[1], a[2], a[3], a[4], a[5], a[6], a[7]))

Call_cylinder_delta_nsfs(domain) ==
    \E a \in Arguments(domain) :
        Called("cylinder_delta_nsfs", a,
               coefficients_cylinder_delta_nsfs(a[1], a[2], a[3], a[4], a[5], a[6], a[7]))

Call_sphere_delta_fs(domain) ==
    \E a \in Arguments(domain) :
        Called("sphere_delta_fs", a,
               coefficients_sphere_delta_fs(a[1], a[2], a[3], a[4], a[5], a[6], a[7]))

Call_sphere_delta_ns(domain) ==
    \E a \in Arguments(domain) :
        Called("sphere_delta_ns", a,
               coefficients_sphere_delta_ns(a[1], a[2], a[3], a[4], a[5], a[6], a[7]))

Call_sphere_delta_nsfs(domain) ==
    \E a \in Arguments(domain) :
        Called("sphere_delta_nsfs", a,
               coefficients_sphere_delta_nsfs(a[1], a[2], a[3], a[4], a[5], a[6], a[7]))

\* The caller drops the results and starts over.
Forget ==
    /\ calls # <<>>
    /\ calls' = <<>>

Next ==
    \/ Call_cylinder_delta_fs(Domain)
    \/ Call_cylinder_delta_ns(Domain)
    \/ Call_cylinder_delta_nsfs(Domain)
    \/ Call_sphere_delta_fs(Domain)
    \/ Call_sphere_delta_ns(Domain)
    \/ Call_sphere_delta_nsfs(Domain)
    \/ Forget

Spec == Init /\ [][Next]_vars

\* The cylinder functions with the anomaly on a shell boundary.
NextBoundary ==
    \/ Call_cylinder_delta_fs(BoundaryDomain)
    \/ Call_cylinder_delta_ns(BoundaryDomain)
    \/ Call_cylinder_delta_nsfs(BoundaryDomain)
    \/ Forget

SpecBoundary == Init /\ [][NextBoundary]_vars

\* ---------------------------------------------------------------- claims
\* The radial function the coefficients multiply: the sum of c[i] * r^e[i],
\* and its derivatives of order k = 1, 2, evaluated at r.

Falling(e, k) == IF k = 0 THEN 1 ELSE IF k = 1 THEN e ELSE e * (e - 1)

Term(c, e, r, k) == Times(Times(c, R(Falling(e, k))), Power(r, e - k))

Radial(c, e, r, k) ==
    Plus(Plus(Term(c[1], e[1], r, k), Term(c[2], e[2], r, k)),
         Plus(Term(c[3], e[3], r, k), Term(c[4], e[4], r, k)))

CylinderBasis(n) == <<n, -n, n + 2, -n + 2>>
SphereBasis(l) == <<l, -l - 1, l + 2, -l + 1>>

Basis(c) ==
    IF c.fn \in Cylinder THEN CylinderBasis(c.args[4]) ELSE SphereBasis(c.args[4])

\* P and its derivatives for the coefficients a call returned.
P(c, r, k) == Radial(c.ret, Basis(c), r, k)

\* The call has the anomaly strictly inside the shell: Rm < rp < Rp.
InShell(c) == Lt(c.args[2], c.args[3]) /\ Lt(c.args[3], c.args[1])

\* The boundary of the half the call computes: Rp for the upper, Rm for the lower.
OwnBoundary(c) == IF c.args[7] > 0 THEN c.args[1] ELSE c.args[2]

SameTuple(x, y) ==
    /\ ~Raised(x)
    /\ ~Raised(y)
    /\ \A i \in 1..4 : Eq(x[i], y[i])

\* The second call is the mirror image of a lower-half first call.
MirrorPair ==
    /\ Len(calls) = 2
    /\ calls[1].args[7] < 0
    /\ calls[2].args = Mirror(calls[1].args)

\* The second call is the lower half of an upper-half first call.
HalvesPair ==
    /\ Len(calls) = 2
    /\ calls[1].args[7] > 0
    /\ calls[2].args = Flip(calls[1].args)

\* C1: for the free-slip and zero-slip functions of both geometries and a
\* degree of at least 2, the lower-half call returns, coefficient by
\* coefficient, what the upper-half call returns with the shell radii swapped
\* and the forcing negated: f(Rp, Rm, rp, d, g, nu, -1) = f(Rm, Rp, rp, d, -g, nu, +1).
C1_MirrorSymmetry ==
    (/\ MirrorPair
     /\ calls[1].fn \in {"cylinder_delta_fs", "cylinder_delta_ns",
                         "sphere_delta_fs", "sphere_delta_ns"}
     /\ calls[1].args[4] >= 2)
    => SameTuple(calls[1].ret, calls[2].ret)

C1_Witness ==
    /\ MirrorPair
    /\ calls[1].fn = "sphere_delta_fs"
    /\ calls[1].args[4] = 2
    /\ SameTuple(calls[1].ret, calls[2].ret)
    /\ \A i \in 1..4 : ~IsZero(calls[1].ret[i])

\* The tangential stress of P at r, in the cylinder and in the sphere.
CylinderStress(c, r) ==
    Plus(Minus(P(c, r, 2), Over(P(c, r, 1), r)),
         Over(Times(R(c.args[4] * c.args[4]), P(c, r, 0)), Times(r, r)))

SphereStress(c, r) ==
    Plus(P(c, r, 2),
         Over(Times(R(c.args[4] * (c.args[4] + 1) - 2), P(c, r, 0)), Times(r, r)))

Stress(c, r) == IF c.fn \in Cylinder THEN CylinderStress(c, r) ELSE SphereStress(c, r)

\* C2: a free-slip call with Rm < rp < Rp and degree at least 2 returns
\* coefficients whose radial function P vanishes at the boundary of its half
\* (Rp for sign = +1, Rm for sign = -1) together with the tangential stress
\* there: P'' - P'/R + n^2 P/R^2 in the cylinder, P'' + (l(l+1) - 2) P/R^2 in
\* the sphere.
C2_FreeSlipBoundary ==
    \A i \in 1..Len(calls) :
        (/\ calls[i].fn \in {"cylinder_delta_fs", "sphere_delta_fs"}
         /\ InShell(calls[i])
         /\ calls[i].args[4] >= 2)
        => /\ ~Raised(calls[i].ret)
           /\ IsZero(P(calls[i], OwnBoundary(calls[i]), 0))
           /\ IsZero(Stress(calls[i], OwnBoundary(calls[i])))

C2_Witness ==
    /\ HalvesPair
    /\ calls[1].fn = "cylinder_delta_fs"
    /\ calls[1].args[4] = 3
    /\ IsZero(Stress(calls[1], calls[1].args[1]))
    /\ IsZero(Stress(calls[2], calls[2].args[2]))
    /\ ~IsZero(P(calls[1], calls[1].args[1], 1))
    /\ ~IsZero(P(calls[2], calls[2].args[2], 1))

\* C3: a zero-slip call with Rm < rp < Rp and degree at least 2 returns
\* coefficients whose radial function P vanishes at the boundary of its half
\* together with its derivative: P(Rp) = P'(Rp) = 0 for sign = +1 and
\* P(Rm) = P'(Rm) = 0 for sign = -1.
C3_ZeroSlipBoundary ==
    \A i \in 1..Len(calls) :
        (/\ calls[i].fn \in {"cylinder_delta_ns", "sphere_delta_ns"}
         /\ InShell(calls[i])
         /\ calls[i].args[4] >= 2)
        => /\ ~Raised(calls[i].ret)
           /\ IsZero(P(calls[i], OwnBoundary(calls[i]), 0))
           /\ IsZero(P(calls[i], OwnBoundary(calls[i]), 1))

C3_Witness ==
    /\ HalvesPair
    /\ calls[1].fn = "sphere_delta_ns"
    /\ calls[1].args[4] = 2
    /\ IsZero(P(calls[1], calls[1].args[1], 1))
    /\ IsZero(P(calls[2], calls[2].args[2], 1))
    /\ ~IsZero(P(calls[1], calls[1].args[1], 2))
    /\ ~IsZero(P(calls[2], calls[2].args[2], 2))

\* The condition C4 states for the two halves of a mixed cylinder solution.
CylinderMixed(up, lo) ==
    \/ /\ IsZero(P(up, up.args[1], 1))
       /\ IsZero(CylinderStress(lo, lo.args[2]))
    \/ /\ IsZero(P(lo, lo.args[2], 1))
       /\ IsZero(CylinderStress(up, up.args[1]))

\* C4: the two halves coefficients_cylinder_delta_nsfs returns for
\* Rm < Rd < Rp and n >= 2 are zero-slip at one shell boundary and free-slip
\* at the other: P+'(Rp) = 0 with zero tangential stress of P- at Rm, or
\* P-'(Rm) = 0 with zero tangential stress of P+ at Rp.
C4_CylinderMixedBoundary ==
    (/\ HalvesPair
     /\ calls[1].fn = "cylinder_delta_nsfs"
     /\ InShell(calls[1])
     /\ calls[1].args[4] >= 2)
    => /\ ~Raised(calls[1].ret)
       /\ ~Raised(calls[2].ret)
       /\ CylinderMixed(calls[1], calls[2])

\* C5: the two halves coefficients_sphere_delta_nsfs returns for
\* Rm < Rd < Rp and l >= 1 have P+(Rp) = 0 and P-(Rm) = 0, and are zero-slip
\* at one boundary and free-slip at the other: P+'(Rp) = 0 and P-''(Rm) = 0,
\* or P-'(Rm) = 0 and P+''(Rp) = 0.
C5_SphereMixedBoundary ==
    (/\ HalvesPair
     /\ calls[1].fn = "sphere_delta_nsfs"
     /\ InShell(calls[1])
     /\ calls[1].args[4] >= 1)
    => /\ ~Raised(calls[1].ret)
       /\ ~Raised(calls[2].ret)
       /\ IsZero(P(calls[1], calls[1].args[1], 0))
       /\ IsZero(P(calls[2], calls[2].args[2], 0))
       /\ \/ /\ IsZero(P(calls[1], calls[1].args[1], 1))
             /\ IsZero(P(calls[2], calls[2].args[2], 2))
          \/ /\ IsZero(P(calls[2], calls[2].args[2], 1))
             /\ IsZero(P(calls[1], calls[1].args[1], 2))

C5_Witness ==
    /\ HalvesPair
    /\ calls[1].fn = "sphere_delta_nsfs"
    /\ calls[1].args[4] = 1
    /\ IsZero(P(calls[1], calls[1].args[1], 1))
    /\ IsZero(P(calls[2], calls[2].args[2], 2))
    /\ ~IsZero(P(calls[2], calls[2].args[2], 1))
    /\ ~IsZero(P(calls[1], calls[1].args[1], 2))

\* The basis in the order the specification lists it: r^(-n+2), r^(n+2), r^(-n), r^n.
ListedBasis(n) == <<-n + 2, n + 2, -n, n>>

\* The two halves of a cylinder free-slip or zero-slip solution, Rm < rp < Rp, n >= 2.
CylinderHalves ==
    /\ HalvesPair
    /\ calls[1].fn \in {"cylinder_delta_fs", "cylinder_delta_ns"}
    /\ InShell(calls[1])
    /\ calls[1].args[4] >= 2
    /\ ~Raised(calls[1].ret)
    /\ ~Raised(calls[2].ret)

\* C6 as stated: with A, B, C, D multiplying r^(-n+2), r^(n+2), r^(-n), r^n,
\* the radial function has the same value at rp from the sign = +1 tuple as
\* from the sign = -1 tuple.
C6_ContinuityListedBasis ==
    CylinderHalves
    => Eq(Radial(calls[1].ret, ListedBasis(calls[1].args[4]), calls[1].args[3], 0),
          Radial(calls[2].ret, ListedBasis(calls[1].args[4]), calls[1].args[3], 0))

\* C6 amended: with A, B, C, D multiplying r^n, r^(-n), r^(n+2), r^(-n+2),
\* the radial function P has the same value at rp from the sign = +1 tuple
\* as from the sign = -1 tuple.
C6_Continuity ==
    CylinderHalves
    => Eq(P(calls[1], calls[1].args[3], 0), P(calls[2], calls[1].args[3], 0))

C6_Witness ==
    /\ CylinderHalves
    /\ calls[1].fn = "cylinder_delta_ns"
    /\ Eq(P(calls[1], calls[1].args[3], 0), P(calls[2], calls[1].args[3], 0))
    /\ ~IsZero(P(calls[1], calls[1].args[3], 0))
    /\ \E i \in 1..4 : ~Eq(calls[1].ret[i], calls[2].ret[i])

\* A cylinder free-slip or zero-slip call with Rm < rp < Rp and n = 1.
SingularCall(c) ==
    /\ c.fn \in {"cylinder_delta_fs", "cylinder_delta_ns"}
    /\ InShell(c)
    /\ c.args[4] = 1

\* C7: a call of cylinder_delta_fs or cylinder_delta_ns with n = 1 completes
\* and returns its 4-tuple; the zero denominator does not surface as a raised
\* error. The source raises ZeroDivisionError at the division by (n - 1), so
\* this is violated by every such call.
C7_SingularReturnsTuple ==
    \A i \in 1..Len(calls) :
        SingularCall(calls[i])
        => /\ ~Raised(calls[i].ret)
           /\ Len(calls[i].ret) = 4

\* C8: every cylinder call with Rm < rp < Rp and n >= 2 divides by no zero
\* and returns four numbers.
C8_NoZeroDivision ==
    \A i \in 1..Len(calls) :
        (/\ calls[i].fn \in Cylinder
         /\ InShell(calls[i])
         /\ calls[i].args[4] >= 2)
        => /\ ~Raised(calls[i].ret)
           /\ Len(calls[i].ret) = 4
           /\ \A j \in 1..4 : ~Raised(calls[i].ret[j])

\* The specification's scenario: Rp = 2, Rm = 1, rp = 3/2, n = 2, g = 1, nu = 1, sign = +1.
C8_Witness ==
    /\ Len(calls) >= 1
    /\ calls[1].fn = "cylinder_delta_fs"
    /\ calls[1].args = <<R(2), R(1), Q(3, 2), 2, R(1), R(1), 1>>
    /\ ~Raised(calls[1].ret)
    /\ Eq(calls[1].ret[1], Q(-5, 96))
    /\ Eq(calls[1].ret[4], Q(5, 24))

\* The powers of k the coefficients of a call scale by.
ScaleExponents(c) ==
    IF c.fn \in Cylinder
    THEN <<2 - c.args[4], c.args[4] + 2, -c.args[4], c.args[4]>>
    ELSE <<2 - c.args[4], c.args[4] + 3, -c.args[4], c.args[4] + 1>>

\* The second call is the first with every radius multiplied by k.
ScalePair(k) ==
    /\ Len(calls) = 2
    /\ calls[2].args = Scale(k, calls[1].args)

\* C9: when a call with Rm < rp < Rp returns (A, B, C, D), the call with all
\* three radii multiplied by k returns (k^(2-n) A, k^(n+2) B, k^(-n) C, k^n D)
\* for a cylinder function and (k^(2-l) A, k^(l+3) B, k^(-l) C, k^(l+1) D)
\* for a sphere function.
C9_ScaleInvariance ==
    \A k \in Scales :
        (ScalePair(k) /\ InShell(calls[1]) /\ ~Raised(calls[1].ret))
        => /\ ~Raised(calls[2].ret)
           /\ \A i \in 1..4 :
                Eq(calls[2].ret[i],
                   Times(Power(k, ScaleExponents(calls[1])[i]), calls[1].ret[i]))

C9_Witness ==
    /\ ScalePair(R(3))
    /\ calls[1].fn = "sphere_delta_nsfs"
    /\ calls[1].args[4] = 2
    /\ ~Raised(calls[1].ret)
    /\ ~Raised(calls[2].ret)
    /\ \A i \in 1..4 : ~IsZero(calls[1].ret[i])
    /\ Eq(calls[2].ret[2], Times(R(243), calls[1].ret[2]))

\* A cylinder call with the anomaly on a boundary of the shell, Rm < Rp, n >= 2.
BoundaryCall(c) ==
    /\ c.fn \in Cylinder
    /\ Lt(c.args[2], c.args[1])
    /\ (c.args[3] = c.args[2] \/ c.args[3] = c.args[1])
    /\ c.args[4] >= 2

\* C10 as stated: with the anomaly radius equal to Rm or to Rp, a
\* denominator of a coefficient is zero.
C10_BoundaryDividesByZero ==
    \A i \in 1..Len(calls) : BoundaryCall(calls[i]) => Raised(calls[i].ret)

\* C10 amended: with the anomaly radius equal to Rm or to Rp, no denominator
\* is zero and the call returns four numbers.
C10_BoundaryReturns ==
    \A i \in 1..Len(calls) :
        BoundaryCall(calls[i])
        => /\ ~Raised(calls[i].ret)
           /\ Len(calls[i].ret) = 4
           /\ \A j \in 1..4 : ~Raised(calls[i].ret[j])

C10_Witness ==
    /\ Len(calls) = 2
    /\ BoundaryCall(calls[1]) /\ BoundaryCall(calls[2])
    /\ calls[1].fn = "cylinder_delta_nsfs"
    /\ calls[1].args[3] = calls[1].args[1]
    /\ calls[1].args[7] > 0 /\ calls[2].args[7] < 0
    /\ \A i \in 1..4 : ~IsZero(calls[1].ret[i])
    /\ \A i \in 1..4 : IsZero(calls[2].ret[i])

\* Whether some variant of the call's geometry divides by zero on its arguments.
RaisesInSomeVariant(c) ==
    IF c.fn \in Cylinder
    THEN \/ Raised(coefficients_cylinder_delta_fs(c.args[1], c.args[2], c.args[3],
                        c.args[4], c.args[5], c.args[6], c.args[7]))
         \/ Raised(coefficients_cylinder_delta_ns(c.args[1], c.args[2], c.args[3],
                        c.args[4], c.args[5], c.args[6], c.args[7]))
         \/ Raised(coefficients_cylinder_delta_nsfs(c.args[1], c.args[2], c.args[3],
                        c.args[4], c.args[5], c.args[6], c.args[7]))
    ELSE \/ Raised(coefficients_sphere_delta_fs(c.args[1], c.args[2], c.args[3],
                        c.args[4], c.args[5], c.args[6], c.args[7]))
         \/ Raised(coefficients_sphere_delta_ns(c.args[1], c.args[2], c.args[3],
                        c.args[4], c.args[5], c.args[6], c.args[7]))
         \/ Raised(coefficients_sphere_delta_nsfs(c.args[1], c.args[2], c.args[3],
                        c.args[4], c.args[5], c.args[6], c.args[7]))

\* C11 as stated: for every geometry Rm < rp < Rp, each of the degrees 0 and 1
\* makes a denominator zero in at least one variant of the cylinder, and each
\* of the degrees 0 and 1 in at least one variant of the sphere.
C11_SingularInSomeVariant ==
    \A i \in 1..Len(calls) :
        (InShell(calls[i]) /\ calls[i].args[4] \in {0, 1})
        => RaisesInSomeVariant(calls[i])

\* C11 amended: in the cylinder n = 1 makes a denominator zero in all three
\* variants and n = 0 in the zero-slip variant; in the sphere l = 0 and l = 1
\* make no denominator zero in any variant, and the call returns four numbers.
C11_SingularDegrees ==
    \A i \in 1..Len(calls) :
        InShell(calls[i])
        => /\ (calls[i].fn \in Cylinder /\ calls[i].args[4] = 1)
                => Raised(calls[i].ret)
           /\ (calls[i].fn = "cylinder_delta_ns" /\ calls[i].args[4] = 0)
                => Raised(calls[i].ret)
           /\ (calls[i].fn \in Sphere /\ calls[i].args[4] \in {0, 1})
                => (~Raised(calls[i].ret) /\ Len(calls[i].ret) = 4)

C11_Witness ==
    /\ Len(calls) = 2
    /\ InShell(calls[1]) /\ InShell(calls[2])
    /\ calls[1].fn = "sphere_delta_ns"
    /\ calls[1].args[4] = 1
    /\ ~Raised(calls[1].ret) /\ ~Raised(calls[2].ret)
    /\ ~RaisesInSomeVariant(calls[1])
    /\ \A i \in 1..4 : ~IsZero(calls[1].ret[i])

\* The substitutions of one side, chosen by a test of the sign and by no slice:
\* <<alpha_pm, alpha_mp>> and <<pm, mp>>.
SideAlphas(a) ==
    IF a[7] > 0 THEN <<Div(a[1], a[3]), Div(a[2], a[3])>>
    ELSE <<Div(a[2], a[3]), Div(a[1], a[3])>>

SideSigns(a) == IF a[7] > 0 THEN <<1, -1>> ELSE <<-1, 1>>

FsBySide(fn, a) ==
    IF fn = "cylinder_delta_fs"
    THEN Return(<<cylinder_delta_fs_A(a[3], a[4], a[5], a[6], SideAlphas(a)[1], SideAlphas(a)[2], SideSigns(a)[1]),
                  cylinder_delta_fs_B(a[3], a[4], a[5], a[6], SideAlphas(a)[1], SideAlphas(a)[2], SideSigns(a)[1]),
                  cylinder_delta_fs_C(a[3], a[4], a[5], a[6], SideAlphas(a)[1], SideAlphas(a)[2], SideSigns(a)[1]),
                  cylinder_delta_fs_D(a[3], a[4], a[5], a[6], SideAlphas(a)[1], SideAlphas(a)[2], SideSigns(a)[1])>>)
    ELSE Return(<<sphere_delta_fs_A(a[3], a[4], a[5], a[6], SideAlphas(a)[1], SideAlphas(a)[2], SideSigns(a)[1]),
                  sphere_delta_fs_B(a[3], a[4], a[5], a[6], SideAlphas(a)[1], SideAlphas(a)[2], SideSigns(a)[1]),
                  sphere_delta_fs_C(a[3], a[4], a[5], a[6], SideAlphas(a)[1], SideAlphas(a)[2], SideSigns(a)[1]),
                  sphere_delta_fs_D(a[3], a[4], a[5], a[6], SideAlphas(a)[1], SideAlphas(a)[2], SideSigns(a)[1])>>)

NsBySide(fn, a) ==
    IF fn = "cylinder_delta_ns"
    THEN Return(<<cylinder_delta_ns_A(a[3], a[4], a[5], a[6], Div(a[1], a[3]), Div(a[2], a[3]), SideSigns(a)[1], SideSigns(a)[2]),
                  cylinder_delta_ns_B(a[3], a[4], a[5], a[6], Div(a[1], a[3]), Div(a[2], a[3]), SideSigns(a)[1], SideSigns(a)[2]),
                  cylinder_delta_ns_C(a[3], a[4], a[5], a[6], Div(a[1], a[3]), Div(a[2], a[3]), SideSigns(a)[1], SideSigns(a)[2]),
                  cylinder_delta_ns_D(a[3], a[4], a[5], a[6], Div(a[1], a[3]), Div(a[2], a[3]), SideSigns(a)[1], SideSigns(a)[2])>>)
    ELSE Return(<<sphere_delta_ns_A(a[3], a[4], a[5], a[6], Div(a[1], a[3]), Div(a[2], a[3]), SideSigns(a)[1], SideSigns(a)[2]),
                  sphere_delta_ns_B(a[3], a[4], a[5], a[6], Div(a[1], a[3]), Div(a[2], a[3]), SideSigns(a)[1], SideSigns(a)[2]),
                  sphere_delta_ns_C(a[3], a[4], a[5], a[6], Div(a[1], a[3]), Div(a[2], a[3]), SideSigns(a)[1], SideSigns(a)[2]),
                  sphere_delta_ns_D(a[3], a[4], a[5], a[6], Div(a[1], a[3]), Div(a[2], a[3]), SideSigns(a)[1], SideSigns(a)[2])>>)

\* The upper-half tuple of a mixed function for sign = +1, the lower-half one for sign = -1.
NsfsBySide(fn, a) ==
    IF fn = "cylinder_delta_nsfs"
    THEN (IF a[7] = 1
          THEN Return(<<cylinder_delta_nsfs_Ap(a[1], a[2], a[3], a[4], a[5], a[6]),
                        cylinder_delta_nsfs_Bp(a[1], a[2], a[3], a[4], a[5], a[6]),
                        cylinder_delta_nsfs_Cp(a[1], a[2], a[3], a[4], a[5], a[6]),
                        cylinder_delta_nsfs_Dp(a[1], a[2], a[3], a[4], a[5], a[6])>>)
          ELSE Return(<<cylinder_delta_nsfs_Am(a[1], a[2], a[3], a[4], a[5], a[6]),
                        cylinder_delta_nsfs_Bm(a[1], a[2], a[3], a[4], a[5], a[6]),
                        cylinder_delta_nsfs_Cm(a[1], a[2], a[3], a[4], a[5], a[6]),
                        cylinder_delta_nsfs_Dm(a[1], a[2], a[3], a[4], a[5], a[6])>>))
    ELSE (IF a[7] = 1
          THEN Return(<<sphere_delta_nsfs_Ap(a[1], a[2], a[3], a[4], a[5], a[6]),
                        sphere_delta_nsfs_Bp(a[1], a[2], a[3], a[4], a[5], a[6]),
                        sphere_delta_nsfs_Cp(a[1], a[2], a[3], a[4], a[5], a[6]),
                        sphere_delta_nsfs_Dp(a[1], a[2], a[3], a[4], a[5], a[6])>>)
          ELSE Return(<<sphere_delta_nsfs_Am(a[1], a[2], a[3], a[4], a[5], a[6]),
                        sphere_delta_nsfs_Bm(a[1], a[2], a[3], a[4], a[5], a[6]),
                        sphere_delta_nsfs_Cm(a[1], a[2], a[3], a[4], a[5], a[6]),
                        sphere_delta_nsfs_Dm(a[1], a[2], a[3], a[4], a[5], a[6])>>))

BySide(fn, a) ==
    IF fn \in {"cylinder_delta_fs", "sphere_delta_fs"} THEN FsBySide(fn, a)
    ELSE IF fn \in {"cylinder_delta_ns", "sphere_delta_ns"} THEN NsBySide(fn, a)
    ELSE NsfsBySide(fn, a)

\* C12: what a call returns, or that it raises, is what its formulas give
\* with the side chosen by the sign: alpha_pm = Rp/rp, alpha_mp = Rm/rp,
\* pm = +1, mp = -1 for sign = +1 and alpha_pm = Rm/rp, alpha_mp = Rp/rp,
\* pm = -1, mp = +1 for sign = -1 in the fs and ns functions, and the tuple
\* (Ap, Bp, Cp, Dp) for sign = +1 and (Am, Bm, Cm, Dm) for sign = -1 in the
\* nsfs functions.
C12_SideSelection ==
    \A i \in 1..Len(calls) :
        IF Raised(calls[i].ret)
        THEN Raised(BySide(calls[i].fn, calls[i].args))
        ELSE SameTuple(calls[i].ret, BySide(calls[i].fn, calls[i].args))

C12_Witness ==
    /\ HalvesPair
    /\ calls[1].fn = "sphere_delta_fs"
    /\ calls[1].args[4] = 2
    /\ SameTuple(calls[1].ret, BySide(calls[1].fn, calls[1].args))
    /\ SameTuple(calls[2].ret, BySide(calls[2].fn, calls[2].args))
    /\ \A i \in 1..4 : ~Eq(calls[1].ret[i], calls[2].ret[i])

\* The call of the other cylinder function, free-slip for mixed and mixed for
\* free-slip, on the same arguments.
Counterpart(c) ==
    IF c.fn = "cylinder_delta_nsfs"
    THEN coefficients_cylinder_delta_fs(c.args[1], c.args[2], c.args[3], c.args[4],
                                        c.args[5], c.args[6], c.args[7])
    ELSE coefficients_cylinder_delta_nsfs(c.args[1], c.args[2], c.args[3], c.args[4],
                                          c.args[5], c.args[6], c.args[7])

\* C13: for Rm < r < Rp and n >= 2, coefficients_cylinder_delta_nsfs and
\* coefficients_cylinder_delta_fs return the same four numbers on the same
\* arguments, for either sign.
C13_MixedEqualsFreeSlip ==
    \A i \in 1..Len(calls) :
        (/\ calls[i].fn \in {"cylinder_delta_nsfs", "cylinder_delta_fs"}
         /\ InShell(calls[i])
         /\ calls[i].args[4] >= 2)
        => SameTuple(calls[i].ret, Counterpart(calls[i]))

C13_Witness ==
    /\ HalvesPair
    /\ calls[1].fn = "cylinder_delta_nsfs"
    /\ calls[1].args[4] = 3
    /\ SameTuple(calls[1].ret, Counterpart(calls[1]))
    /\ SameTuple(calls[2].ret, Counterpart(calls[2]))
    /\ \A i \in 1..4 : ~IsZero(calls[1].ret[i]) /\ ~IsZero(calls[2].ret[i])

\* The jump C14 states for rp, n, g, nu:
\* <<-g rp^(2-n) / (8 (n-1) nu), -g rp^(n+2) / (8 (n+1) nu),
\*    g rp^(-n) / (8 (n+1) nu),   g rp^n / (8 (n-1) nu)>>.
Jump(rp, n, g, nu) ==
    <<Negate(Over(Times(g, Power(rp, 2 - n)), Times(R(8 * (n - 1)), nu))),
      Negate(Over(Times(g, Power(rp, n + 2)), Times(R(8 * (n + 1)), nu))),
      Over(Times(g, Power(rp, -n)), Times(R(8 * (n + 1)), nu)),
      Over(Times(g, Power(rp, n)), Times(R(8 * (n - 1)), nu))>>

\* C14: for the cylinder free-slip and zero-slip functions, Rm < rp < Rp and
\* n >= 2, the sign = +1 tuple minus the sign = -1 tuple is the jump, which
\* depends on rp, n, g and nu only, and P and P' have the same value at rp
\* for both tuples.
C14_CoefficientJump ==
    CylinderHalves
    => /\ \A i \in 1..4 :
            Eq(Minus(calls[1].ret[i], calls[2].ret[i]),
               Jump(calls[1].args[3], calls[1].args[4], calls[1].args[5], calls[1].args[6])[i])
       /\ Eq(P(calls[1], calls[1].args[3], 0), P(calls[2], calls[1].args[3], 0))
       /\ Eq(P(calls[1], calls[1].args[3], 1), P(calls[2], calls[1].args[3], 1))

C14_Witness ==
    /\ CylinderHalves
    /\ calls[1].fn = "cylinder_delta_fs"
    /\ calls[1].args[4] = 3
    /\ Eq(Minus(calls[1].ret[4], calls[2].ret[4]),
          Jump(calls[1].args[3], calls[1].args[4], calls[1].args[5], calls[1].args[6])[4])
    /\ Eq(P(calls[1], calls[1].args[3], 1), P(calls[2], calls[1].args[3], 1))
    /\ ~IsZero(P(calls[1], calls[1].args[3], 1))
    /\ \A i \in 1..4 : ~IsZero(Minus(calls[1].ret[i], calls[2].ret[i]))

====
